---- MODULE Spec2Model ----
(***************************************************************************)
(* Model of the sprite detection engine of the sprite-sheet editor        *)
(* (js/spriteDetection.js): background estimation, background predicate,  *)
(* noise filter, flood-fill detector, the worker's copy of the detector,  *)
(* and the orchestrator with its insertion-ordered result cache.          *)
(*                                                                         *)
(* Pixel buffers are functions 0..w*h-1 -> colour, a colour is a tuple     *)
(* <<r, g, b, a>>.  JavaScript values that may be non-numeric (tolerance,  *)
(* minSpriteSize) are tagged pairs <<"num", n>>, <<"nan", 0>>,             *)
(* <<"undefined", 0>>.                                                     *)
(***************************************************************************)
EXTENDS Integers, Sequences, FiniteSets, TLC

(***************************************************************************)
(* Bounds of the model.                                                    *)
(***************************************************************************)
\* two-colour images: every buffer with w, h <= MaxSide and w*h <= MaxPixels
MaxPixels == 9
MaxSide == 3
\* full-palette images: every single-row and single-column buffer of at most
\* MaxRichPixels pixels
MaxRichPixels == 3
\* block images: one square block on a MaxBlockSide x MaxBlockSide background
MaxBlockSide == 5
\* calls of detectSpritesFromImage in one behaviour of the module
MaxCalls == 2
\* calls in flight (promises not yet settled) at one time
MaxInFlight == 2
\* keys added to the cache in one behaviour of the cache's specification
MaxInserts == 13
\* frames AppState.frames holds at one time in the editor's specification
MaxFrames == 2
\* images filtered under other noise thresholds: at most MaxNoisePixels pixels
MaxNoisePixels == 6
\* the largest chunkSize of a chunked call, in bytes
MaxChunkBytes == 12
\* the entries the chunk list is followed for
MaxChunks == 4

(***************************************************************************)
(* JavaScript numbers.                                                     *)
(***************************************************************************)
Num(n) == <<"num", n>>
NaN == <<"nan", 0>>
Undefined == <<"undefined", 0>>
IsNum(v) == v[1] = "num"

\* a < b, a > b, a <= b, a >= b of JavaScript with a, b numbers or undefined:
\* every comparison with NaN (undefined converts to NaN) is false.
JsLt(a, b) == IsNum(a) /\ IsNum(b) /\ a[2] < b[2]
JsGt(a, b) == IsNum(a) /\ IsNum(b) /\ a[2] > b[2]
JsLe(a, b) == IsNum(a) /\ IsNum(b) /\ a[2] <= b[2]
JsGe(a, b) == IsNum(a) /\ IsNum(b) /\ a[2] >= b[2]

Abs(x) == IF x < 0 THEN -x ELSE x
Min(a, b) == IF a < b THEN a ELSE b
Max(a, b) == IF a > b THEN a ELSE b

\* the column and the row of buffer index i = y * w + x
PixelX(i, w) == i % w
PixelY(i, w) == i \div w

(***************************************************************************)
(* Colours of the model's palette.                                         *)
(***************************************************************************)
White == <<255, 255, 255, 255>>
Black == <<0, 0, 0, 255>>
NearWhite == <<250, 255, 255, 255>>
Clear == <<0, 0, 0, 0>>
Glass == <<0, 0, 0, 128>>

TwoColours == {White, Black}
Palette == {White, Black, NearWhite, Clear, Glass}

(***************************************************************************)
(* DEFAULT_CONFIG                                                          *)
(***************************************************************************)
DefaultTolerance == 10
DefaultMinSpriteSize == 4
DefaultNoiseThreshold == 2

DEFAULT_CONFIG ==
    [ tolerance |-> Num(DefaultTolerance),
      minSpriteSize |-> Num(DefaultMinSpriteSize),
      use8WayConnectivity |-> FALSE,
      useWebWorker |-> TRUE,
      algorithm |-> "floodFill",
      enableCache |-> TRUE,
      forceRecalculation |-> FALSE,
      enableNoiseReduction |-> TRUE,
      noiseThreshold |-> DefaultNoiseThreshold ]

(***************************************************************************)
(* isBackgroundColor(data, index, bgColor, tolerance), on the pixel        *)
(* px = data[index .. index+3].                                            *)
(***************************************************************************)
\* a variant that compares the R, G, B distance only
isBackgroundColorRgbOnly(px, bgColor, tolerance) ==
    JsLe(Num(Abs(px[1] - bgColor[1]) + Abs(px[2] - bgColor[2])
             + Abs(px[3] - bgColor[3])), tolerance)

\* a variant whose distance counts the alpha channel as well
isBackgroundColorWithAlpha(px, bgColor, tolerance) ==
    IF px[4] = 0 THEN TRUE
    ELSE IF bgColor[4] < 255 /\ px[4] > 0 THEN FALSE
    ELSE JsLe(Num(Abs(px[1] - bgColor[1]) + Abs(px[2] - bgColor[2])
                  + Abs(px[3] - bgColor[3]) + Abs(px[4] - bgColor[4])), tolerance)

isBackgroundColor(px, bgColor, tolerance) ==
    IF px[4] = 0 THEN TRUE
    ELSE IF bgColor[4] < 255 /\ px[4] > 0 THEN FALSE
    ELSE JsLe(Num(Abs(px[1] - bgColor[1]) + Abs(px[2] - bgColor[2])
                  + Abs(px[3] - bgColor[3])), tolerance)

(***************************************************************************)
(* colorsSimilar(color1, color2, tolerance): every one of the four         *)
(* channels within the tolerance.                                          *)
(***************************************************************************)
colorsSimilar(color1, color2, tolerance) ==
    \A i \in 1..4 : ~(Abs(color1[i] - color2[i]) > tolerance)

(***************************************************************************)
(* detectBackgroundColor(data, w, h): the border sample, its buckets and   *)
(* the reduce that picks the most common one.                              *)
(***************************************************************************)
SampleDivisor == 50
GroupTolerance == 5

Stride(dimension) == Max(1, dimension \div SampleDivisor)

\* the x (or y) values a loop "for (v = from; v < to; v += step)" visits
RECURSIVE LoopValues(_, _, _)
LoopValues(from, to, step) ==
    IF from < to THEN <<from>> \o LoopValues(from + step, to, step) ELSE <<>>

\* the buffer indices sampled, in the order they are pushed: top and bottom
\* of each sampled column, then left and right of each sampled inner row
RECURSIVE TopBottom(_, _, _, _)
TopBottom(xs, k, w, h) ==
    IF k > Len(xs) THEN <<>>
    ELSE <<0 * w + xs[k], (h - 1) * w + xs[k]>> \o TopBottom(xs, k + 1, w, h)

RECURSIVE LeftRight(_, _, _, _)
LeftRight(ys, k, w, h) ==
    IF k > Len(ys) THEN <<>>
    ELSE <<ys[k] * w + 0, ys[k] * w + (w - 1)>> \o LeftRight(ys, k + 1, w, h)

borderIndices(w, h) ==
    TopBottom(LoopValues(0, w, Stride(w)), 1, w, h)
    \o LeftRight(LoopValues(1, h - 1, Stride(h)), 1, w, h)

borderPixels(data, w, h) ==
    LET idx == borderIndices(w, h) IN [k \in 1..Len(idx) |-> data[idx[k]]]

\* "for (const key in colorCounts)": index of the first bucket whose colour
\* is similar to color, 0 if none
RECURSIVE FindSimilar(_, _, _, _)
FindSimilar(buckets, k, color, tolerance) ==
    IF k > Len(buckets) THEN 0
    ELSE IF colorsSimilar(color, buckets[k][1], tolerance) THEN k
    ELSE FindSimilar(buckets, k + 1, color, tolerance)

\* borderPixels.forEach(...): colorCounts as the sequence of <<colour, count>>
\* in insertion order
RECURSIVE CountColors(_, _, _, _)
CountColors(pixels, k, buckets, tolerance) ==
    IF k > Len(pixels) THEN buckets
    ELSE LET b == FindSimilar(buckets, 1, pixels[k], tolerance)
         IN  CountColors(pixels, k + 1,
                 IF b = 0 THEN Append(buckets, <<pixels[k], 1>>)
                 ELSE [buckets EXCEPT ![b] = <<@[1], @[2] + 1>>],
                 tolerance)

\* Object.keys(colorCounts).reduce((a, b) => colorCounts[a] > colorCounts[b] ? a : b)
RECURSIVE ReduceMostCommon(_, _, _)
ReduceMostCommon(buckets, k, a) ==
    IF k > Len(buckets) THEN a
    ELSE ReduceMostCommon(buckets, k + 1,
             IF buckets[a][2] > buckets[k][2] THEN a ELSE k)

\* a variant of mostCommonColor that returns the colour as opaque
mostCommonColorOpaque(buckets) ==
    LET c == buckets[ReduceMostCommon(buckets, 2, 1)][1]
    IN  <<c[1], c[2], c[3], 255>>

mostCommonColor(buckets) == buckets[ReduceMostCommon(buckets, 2, 1)][1]

detectBackgroundColor(data, w, h) ==
    mostCommonColor(CountColors(borderPixels(data, w, h), 1, <<>>, GroupTolerance))

\* the worker's detectBackgroundColor: the four corners, counted under the
\* exact key color.join(',')
RECURSIVE FindKey(_, _, _)
FindKey(buckets, k, color) ==
    IF k > Len(buckets) THEN 0
    ELSE IF color = buckets[k][1] THEN k
    ELSE FindKey(buckets, k + 1, color)

RECURSIVE workerCountColors(_, _, _)
workerCountColors(colors, k, buckets) ==
    IF k > Len(colors) THEN buckets
    ELSE LET b == FindKey(buckets, 1, colors[k])
         IN  workerCountColors(colors, k + 1,
                 IF b = 0 THEN Append(buckets, <<colors[k], 1>>)
                 ELSE [buckets EXCEPT ![b] = <<@[1], @[2] + 1>>])

workerDetectBackgroundColor(data, w, h) ==
    LET corners == << data[0 * w + 0], data[0 * w + (w - 1)],
                      data[(h - 1) * w + 0], data[(h - 1) * w + (w - 1)] >>
    IN  mostCommonColor(workerCountColors(corners, 1, <<>>))

(***************************************************************************)
(* Flood fills.                                                            *)
(***************************************************************************)
Neighbors4 == << <<-1, 0>>, <<1, 0>>, <<0, -1>>, <<0, 1>> >>
Neighbors8 == << <<-1, -1>>, <<-1, 0>>, <<-1, 1>>, <<0, -1>>,
                 <<0, 1>>, <<1, -1>>, <<1, 0>>, <<1, 1>> >>

\* variants of neighborsOf that ignore the connectivity option
neighborsOfFourOnly(use8WayConnectivity) == Neighbors4
neighborsOfEightOnly(use8WayConnectivity) == Neighbors8

neighborsOf(use8WayConnectivity) ==
    IF use8WayConnectivity THEN Neighbors8 ELSE Neighbors4

\* the inner "for (const [dx, dy] of neighbors)" of floodFill
RECURSIVE floodFillNeighbors(_, _, _, _, _, _, _, _, _, _)
floodFillNeighbors(st, k, neighbors, cx, cy, data, w, h, bgColor, tolerance) ==
    IF k > Len(neighbors) THEN st
    ELSE LET nx == cx + neighbors[k][1]
             ny == cy + neighbors[k][2]
             ni == ny * w + nx
             push == /\ nx >= 0 /\ nx < w /\ ny >= 0 /\ ny < h
                     /\ ni \notin st.visited
                     /\ ~isBackgroundColor(data[ni], bgColor, tolerance)
         IN  floodFillNeighbors(
                 IF push
                 THEN [st EXCEPT !.visited = @ \cup {ni},
                                 !.queue = Append(@, <<nx, ny>>),
                                 !.pushed = Append(@, ni),
                                 !.pixelCount = @ + 1]
                 ELSE st,
                 k + 1, neighbors, cx, cy, data, w, h, bgColor, tolerance)

\* a variant of the fill that marks a pixel visited when it is taken from the
\* queue, not when it is put on it
RECURSIVE floodFillNeighborsUnmarked(_, _, _, _, _, _, _, _, _, _)
floodFillNeighborsUnmarked(st, k, neighbors, cx, cy, data, w, h, bgColor, tolerance) ==
    IF k > Len(neighbors) THEN st
    ELSE LET nx == cx + neighbors[k][1]
             ny == cy + neighbors[k][2]
             ni == ny * w + nx
             push == /\ nx >= 0 /\ nx < w /\ ny >= 0 /\ ny < h
                     /\ ni \notin st.visited
                     /\ ~isBackgroundColor(data[ni], bgColor, tolerance)
         IN  floodFillNeighborsUnmarked(
                 IF push
                 THEN [st EXCEPT !.queue = Append(@, <<nx, ny>>),
                                 !.pushed = Append(@, ni),
                                 !.pixelCount = @ + 1]
                 ELSE st,
                 k + 1, neighbors, cx, cy, data, w, h, bgColor, tolerance)

RECURSIVE floodFillLoopMarksAtDequeue(_, _, _, _, _, _, _)
floodFillLoopMarksAtDequeue(st, neighbors, data, w, h, bgColor, tolerance) ==
    IF st.queue = <<>> THEN st
    ELSE LET cx == Head(st.queue)[1]
             cy == Head(st.queue)[2]
             st1 == [st EXCEPT !.queue = Tail(@),
                               !.visited = @ \cup {cy * w + cx},
                               !.minX = Min(@, cx), !.minY = Min(@, cy),
                               !.maxX = Max(@, cx), !.maxY = Max(@, cy)]
         IN  floodFillLoopMarksAtDequeue(
                 floodFillNeighborsUnmarked(st1, 1, neighbors, cx, cy, data, w, h,
                                            bgColor, tolerance),
                 neighbors, data, w, h, bgColor, tolerance)

\* the "while (queue.length > 0)" of floodFill
RECURSIVE floodFillLoop(_, _, _, _, _, _, _)
floodFillLoop(st, neighbors, data, w, h, bgColor, tolerance) ==
    IF st.queue = <<>> THEN st
    ELSE LET cx == Head(st.queue)[1]
             cy == Head(st.queue)[2]
             st1 == [st EXCEPT !.queue = Tail(@),
                               !.minX = Min(@, cx), !.minY = Min(@, cy),
                               !.maxX = Max(@, cx), !.maxY = Max(@, cy)]
         IN  floodFillLoop(
                 floodFillNeighbors(st1, 1, neighbors, cx, cy, data, w, h,
                                    bgColor, tolerance),
                 neighbors, data, w, h, bgColor, tolerance)

\* floodFill(startX, startY): the fill's final state; .pushed is the log of
\* the pixels put on the queue, in order
floodFill(startX, startY, visited, data, w, h, bgColor, config) ==
    floodFillLoop(
        [ queue |-> << <<startX, startY>> >>,
          visited |-> visited \cup {startY * w + startX},
          pushed |-> << startY * w + startX >>,
          minX |-> startX, minY |-> startY, maxX |-> startX, maxY |-> startY,
          pixelCount |-> 1 ],
        neighborsOf(config.use8WayConnectivity), data, w, h, bgColor,
        config.tolerance)

(***************************************************************************)
(* The noise filter: applyNoiseReduction, countConnectedPixels,            *)
(* markNoisePixels.                                                        *)
(***************************************************************************)
NoiseThresholdFallback == 2

RECURSIVE countNeighbors(_, _, _, _, _, _, _, _, _)
countNeighbors(st, k, cx, cy, data, w, h, bgColor, tolerance) ==
    IF k > Len(Neighbors4) THEN st
    ELSE LET nx == cx + Neighbors4[k][1]
             ny == cy + Neighbors4[k][2]
             ni == ny * w + nx
             push == /\ nx >= 0 /\ nx < w /\ ny >= 0 /\ ny < h
                     /\ ni \notin st.visited
                     /\ ~isBackgroundColor(data[ni], bgColor, tolerance)
         IN  countNeighbors(
                 IF push
                 THEN [st EXCEPT !.visited = @ \cup {ni},
                                 !.queue = Append(@, <<nx, ny>>),
                                 !.count = @ + 1]
                 ELSE st,
                 k + 1, cx, cy, data, w, h, bgColor, tolerance)

RECURSIVE countLoop(_, _, _, _, _, _)
countLoop(st, data, w, h, bgColor, tolerance) ==
    IF st.queue = <<>> THEN st
    ELSE countLoop(
             countNeighbors([st EXCEPT !.queue = Tail(@)], 1,
                            Head(st.queue)[1], Head(st.queue)[2],
                            data, w, h, bgColor, tolerance),
             data, w, h, bgColor, tolerance)

countConnectedPixels(startX, startY, w, h, data, bgColor, tolerance) ==
    countLoop([ queue |-> << <<startX, startY>> >>,
                visited |-> {startY * w + startX},
                count |-> 1 ],
              data, w, h, bgColor, tolerance).count

RECURSIVE markNeighbors(_, _, _, _, _, _, _, _)
markNeighbors(st, k, cx, cy, w, h, bgColor, tolerance) ==
    IF k > Len(Neighbors4) THEN st
    ELSE LET nx == cx + Neighbors4[k][1]
             ny == cy + Neighbors4[k][2]
             ni == ny * w + nx
             push == /\ nx >= 0 /\ nx < w /\ ny >= 0 /\ ny < h
                     /\ ni \notin st.visited
                     /\ ~isBackgroundColor(st.data[ni], bgColor, tolerance)
         IN  markNeighbors(
                 IF push
                 THEN [st EXCEPT !.visited = @ \cup {ni},
                                 !.queue = Append(@, <<nx, ny>>)]
                 ELSE st,
                 k + 1, cx, cy, w, h, bgColor, tolerance)

RECURSIVE markLoop(_, _, _, _, _)
markLoop(st, w, h, bgColor, tolerance) ==
    IF st.queue = <<>> THEN st
    ELSE LET cx == Head(st.queue)[1]
             cy == Head(st.queue)[2]
             st1 == [st EXCEPT !.queue = Tail(@),
                               !.data = [@ EXCEPT ![cy * w + cx] = bgColor]]
         IN  markLoop(markNeighbors(st1, 1, cx, cy, w, h, bgColor, tolerance),
                      w, h, bgColor, tolerance)

\* markNoisePixels: the buffer and the filter's visited set after the repaint
markNoisePixels(startX, startY, w, h, data, visited, bgColor, tolerance) ==
    LET st == markLoop([ queue |-> << <<startX, startY>> >>,
                         visited |-> visited \cup {startY * w + startX},
                         data |-> data ],
                       w, h, bgColor, tolerance)
    IN  [data |-> st.data, visited |-> st.visited]

\* config.noiseThreshold || 2
noiseThresholdOf(config) ==
    IF config.noiseThreshold = 0 THEN NoiseThresholdFallback
    ELSE config.noiseThreshold

\* the two nested loops of applyNoiseReduction, i = y * w + x
RECURSIVE noiseScan(_, _, _, _, _, _, _)
noiseScan(i, st, w, h, bgColor, tolerance, threshold) ==
    IF i >= w * h THEN st
    ELSE IF i \in st.visited \/ isBackgroundColor(st.data[i], bgColor, tolerance)
    THEN noiseScan(i + 1, st, w, h, bgColor, tolerance, threshold)
    ELSE LET x == i % w
             y == i \div w
             connectedPixels ==
                 countConnectedPixels(x, y, w, h, st.data, bgColor, tolerance)
         IN  noiseScan(i + 1,
                 IF connectedPixels <= threshold
                 THEN markNoisePixels(x, y, w, h, st.data, st.visited,
                                      bgColor, tolerance)
                 ELSE st,
                 w, h, bgColor, tolerance, threshold)

\* applyNoiseReduction: the buffer it leaves
applyNoiseReduction(data, w, h, bgColor, config) ==
    IF ~config.enableNoiseReduction THEN data
    ELSE noiseScan(0, [data |-> data, visited |-> {}], w, h, bgColor,
                   config.tolerance, noiseThresholdOf(config)).data

(***************************************************************************)
(* The detector's scan ("Procesar imagen"): frames in emission order.      *)
(* regions logs every fill the scan started (its seed, its count, the      *)
(* pixels it queued, whether a frame was emitted).                         *)
(***************************************************************************)
spriteName(newId) == <<"sprite_", newId>>

\* a variant of newFrame whose rectangle is one short in each direction
newFrameNoPlusOne(newId, result) ==
    [ id |-> newId,
      name |-> spriteName(newId),
      rect |-> [ x |-> result.minX, y |-> result.minY,
                 w |-> result.maxX - result.minX,
                 h |-> result.maxY - result.minY ],
      type |-> "simple" ]

newFrame(newId, result) ==
    [ id |-> newId,
      name |-> spriteName(newId),
      rect |-> [ x |-> result.minX, y |-> result.minY,
                 w |-> result.maxX - result.minX + 1,
                 h |-> result.maxY - result.minY + 1 ],
      type |-> "simple" ]

\* a variant of nextFrameId that numbers the regions, dropped ones included
nextFrameIdCountsRegions(newFrames, regions) == Len(regions)

\* const newId = newFrames.length
nextFrameId(newFrames, regions) == Len(newFrames)

\* a variant of the scan that keeps the visited marks of a fill only when
\* the fill's region is emitted
RECURSIVE scanLoopForgetsDropped(_, _, _, _, _, _, _)
scanLoopForgetsDropped(i, st, data, w, h, bgColor, config) ==
    IF i >= w * h THEN st
    ELSE IF i \in st.visited
            \/ isBackgroundColor(data[i], bgColor, config.tolerance)
    THEN scanLoopForgetsDropped(i + 1, st, data, w, h, bgColor, config)
    ELSE LET result == floodFill(i % w, i \div w, st.visited, data, w, h,
                                 bgColor, config)
             emit == JsGe(Num(result.pixelCount), config.minSpriteSize)
             newId == nextFrameId(st.frames, st.regions)
         IN  scanLoopForgetsDropped(i + 1,
                 [ visited |-> IF emit THEN result.visited ELSE st.visited,
                   frames |-> IF emit
                              THEN Append(st.frames, newFrame(newId, result))
                              ELSE st.frames,
                   regions |-> Append(st.regions,
                                  [ seed |-> i,
                                    pixelCount |-> result.pixelCount,
                                    pushed |-> result.pushed,
                                    emitted |-> emit ]) ],
                 data, w, h, bgColor, config)

RECURSIVE scanLoop(_, _, _, _, _, _, _)
scanLoop(i, st, data, w, h, bgColor, config) ==
    IF i >= w * h THEN st
    ELSE IF i \in st.visited
            \/ isBackgroundColor(data[i], bgColor, config.tolerance)
    THEN scanLoop(i + 1, st, data, w, h, bgColor, config)
    ELSE LET result == floodFill(i % w, i \div w, st.visited, data, w, h,
                                 bgColor, config)
             emit == JsGe(Num(result.pixelCount), config.minSpriteSize)
             newId == nextFrameId(st.frames, st.regions)
         IN  scanLoop(i + 1,
                 [ visited |-> result.visited,
                   frames |-> IF emit
                              THEN Append(st.frames, newFrame(newId, result))
                              ELSE st.frames,
                   regions |-> Append(st.regions,
                                  [ seed |-> i,
                                    pixelCount |-> result.pixelCount,
                                    pushed |-> result.pushed,
                                    emitted |-> emit ]) ],
                 data, w, h, bgColor, config)

scanImage(data, w, h, bgColor, config) ==
    scanLoop(0, [visited |-> {}, frames |-> <<>>, regions |-> <<>>],
             data, w, h, bgColor, config)

(***************************************************************************)
(* Image elements and promise outcomes.                                    *)
(* An image element: element (it is an HTMLImageElement, not null),        *)
(* complete, naturalWidth, naturalHeight and the pixels drawImage +        *)
(* getImageData read from it.                                              *)
(***************************************************************************)
Resolved(frames) == [kind |-> "resolved", frames |-> frames, error |-> <<>>]
Rejected(error) == [kind |-> "rejected", frames |-> <<>>, error |-> error]

LoadedImage(w, h, pixels) ==
    [ element |-> TRUE, complete |-> TRUE,
      naturalWidth |-> w, naturalHeight |-> h, pixels |-> pixels ]

\* a field of a caller's (partial) config; undefined when it is not given
Get(config, field) ==
    IF field \in DOMAIN config THEN config[field] ELSE Undefined

\* { ...DEFAULT_CONFIG, ...config }
mergeConfig(config) == config @@ DEFAULT_CONFIG

MinTolerance == 0
MaxTolerance == 255
MinMinSpriteSize == 1

\* validateInputs: the message of the Error it throws, <<>> when it returns
validateInputs(imageElement, config) ==
    IF ~imageElement.element
    THEN <<"Se requiere un elemento de imagen valido">>
    ELSE IF ~imageElement.complete
    THEN <<"La imagen debe estar completamente cargada">>
    ELSE IF /\ Get(config, "tolerance") # Undefined
            /\ \/ JsLt(Get(config, "tolerance"), Num(MinTolerance))
               \/ JsGt(Get(config, "tolerance"), Num(MaxTolerance))
    THEN <<"La tolerancia debe estar entre 0 y 255">>
    ELSE IF /\ Get(config, "minSpriteSize") # Undefined
            /\ JsLt(Get(config, "minSpriteSize"), Num(MinMinSpriteSize))
    THEN <<"El tamano minimo de sprite debe ser al menos 1">>
    ELSE <<>>

(***************************************************************************)
(* floodFillAlgorithm(imageElement, config).  floodFillRun is the body     *)
(* after the early returns: the background colour it detected, the buffer  *)
(* the noise filter left, and the scan's frames and regions.               *)
(***************************************************************************)
floodFillRun(imageElement, finalConfig) ==
    LET w == imageElement.naturalWidth
        h == imageElement.naturalHeight
        bgColor == detectBackgroundColor(imageElement.pixels, w, h)
        data == IF finalConfig.enableNoiseReduction
                THEN applyNoiseReduction(imageElement.pixels, w, h, bgColor,
                                         finalConfig)
                ELSE imageElement.pixels
        scan == scanImage(data, w, h, bgColor, finalConfig)
    IN  [ bgColor |-> bgColor, data |-> data,
          frames |-> scan.frames, regions |-> scan.regions ]

NoTrace == [bgColor |-> Clear, data |-> <<>>, frames |-> <<>>, regions |-> <<>>]

\* the promise's outcome together with what the body computed
floodFillTrace(imageElement, config) ==
    LET error == validateInputs(imageElement, config)
        finalConfig == mergeConfig(config)
    IN  IF error # <<>>
        THEN [ outcome |-> Rejected(<<"Error en deteccion floodFill">> \o error),
               run |-> NoTrace ]
        ELSE IF imageElement.naturalWidth = 0 \/ imageElement.naturalHeight = 0
        THEN [outcome |-> Resolved(<<>>), run |-> NoTrace]
        ELSE LET run == floodFillRun(imageElement, finalConfig)
             IN  [outcome |-> Resolved(run.frames), run |-> run]

floodFillAlgorithm(imageElement, config) ==
    floodFillTrace(imageElement, config).outcome

\* a variant of contourAlgorithm that reports the algorithm as missing
contourAlgorithmUnimplemented(imageElement, config) ==
    Rejected(<<"Algoritmo de contornos no implementado">>)

contourAlgorithm(imageElement, config) == floodFillAlgorithm(imageElement, config)

aiDetectionAlgorithm(imageElement, config) == floodFillAlgorithm(imageElement, config)

\* detectionAlgorithms[config.algorithm] || detectionAlgorithms.floodFill
runAlgorithm(imageElement, config) ==
    CASE config.algorithm = "floodFill" -> floodFillAlgorithm(imageElement, config)
      [] config.algorithm = "contour" -> contourAlgorithm(imageElement, config)
      [] config.algorithm = "ai" -> aiDetectionAlgorithm(imageElement, config)
      [] OTHER -> floodFillAlgorithm(imageElement, config)

(***************************************************************************)
(* The worker's processImageData(imageData, config): corner background,    *)
(* no noise filter, then the same scan (the worker's floodFill and         *)
(* isBackgroundColor are textual copies of the main thread's).             *)
(***************************************************************************)
processImageData(data, w, h, config) ==
    LET bgColor == workerDetectBackgroundColor(data, w, h)
        scan == scanImage(data, w, h, bgColor, config)
    IN  [ bgColor |-> bgColor, data |-> data,
          frames |-> scan.frames, regions |-> scan.regions ]

(***************************************************************************)
(* The detection cache: the Map detectionCache, kept as the sequence of    *)
(* its entries in the Map's iteration (insertion) order.  An entry carries *)
(* the ordinal of the insertion that added its key (stamp); the code has   *)
(* no such field, it is what the eviction order is compared with.          *)
(***************************************************************************)
CACHE_MAX_SIZE == 10

\* JSON.stringify of a number-valued field of criticalConfig: NaN prints as
\* null, an undefined field is left out
jsonNumber(v) ==
    IF IsNum(v) THEN v
    ELSE IF v = NaN THEN <<"null", 0>> ELSE <<"omitted", 0>>

getCacheKey(imageElement, config) ==
    << imageElement.naturalWidth, imageElement.naturalHeight,
       jsonNumber(config.tolerance), jsonNumber(config.minSpriteSize),
       config.use8WayConnectivity, config.algorithm >>

\* detectionCache.has(key)
cacheHas(cache, key) == \E k \in 1..Len(cache) : cache[k].key = key

\* detectionCache.get(key)
cacheGet(cache, key) ==
    cache[CHOOSE k \in 1..Len(cache) : cache[k].key = key].frames

\* detectionCache.set(key, frames): a key already present keeps its place
cacheSet(cache, key, frames, stamp) ==
    IF cacheHas(cache, key)
    THEN [ k \in 1..Len(cache) |->
             IF cache[k].key = key
             THEN [cache[k] EXCEPT !.frames = frames] ELSE cache[k] ]
    ELSE Append(cache, [key |-> key, frames |-> frames, stamp |-> stamp])

\* variants of manageCacheSize: one that never deletes, one that deletes the
\* last key
manageCacheSizeKeepsAll(cache) == cache
manageCacheSizeDropsLast(cache) ==
    IF Len(cache) > CACHE_MAX_SIZE THEN SubSeq(cache, 1, Len(cache) - 1) ELSE cache

manageCacheSize(cache) ==
    IF Len(cache) > CACHE_MAX_SIZE THEN Tail(cache) ELSE cache

(***************************************************************************)
(* The browser the module runs in: whether window.Worker exists, whether   *)
(* new Worker(...) returns (or throws), whether the worker's script then   *)
(* loads (or the worker raises an error event and never answers).          *)
(***************************************************************************)
Browser(hasWorker, constructs, loads) ==
    [hasWorker |-> hasWorker, constructs |-> constructs, loads |-> loads]

Browsers ==
    { Browser(FALSE, FALSE, FALSE), Browser(TRUE, FALSE, FALSE),
      Browser(TRUE, TRUE, FALSE), Browser(TRUE, TRUE, TRUE) }

\* createDetectionWorker(): the value of detectionWorker it leaves and
\* returns.  "null"; "running"; "failing" (constructed, its error event
\* not yet delivered); "dead" (constructed, error event delivered)
createDetectionWorker(worker, browser) ==
    IF worker = "null" /\ browser.hasWorker
    THEN IF browser.constructs
         THEN IF browser.loads THEN "running" ELSE "failing"
         ELSE "null"
    ELSE worker

(***************************************************************************)
(* The synchronous part of detectSpritesFromImage(imageElement, config),   *)
(* processWithWebWorker included: the path it takes, what it settles the   *)
(* promise with at once (outcome.kind is "pending" when it does not), the  *)
(* algorithm result its promise reactions will receive (later), and the    *)
(* detectionWorker it leaves.                                              *)
(*   invalid : validateInputs threw                                        *)
(*   cache   : answered from detectionCache                                *)
(*   worker  : handlers installed, message posted                          *)
(*   threw   : getImageData threw in processWithWebWorker                  *)
(*   postThrew : handlers installed, worker.postMessage threw              *)
(*   fallback: createDetectionWorker returned null, algorithm called       *)
(*   inline  : main-thread branch, algorithm called                        *)
(***************************************************************************)
Pending == [kind |-> "pending", frames |-> <<>>, error |-> <<>>]

SyncPart(path, outcome, later, worker) ==
    [path |-> path, outcome |-> outcome, later |-> later, worker |-> worker]

\* tempCtx.getImageData(0, 0, width, height) throws on a zero width or height
getImageDataThrows(imageElement) ==
    imageElement.naturalWidth = 0 \/ imageElement.naturalHeight = 0

\* worker.postMessage({imageData, config}) throws DataCloneError when the
\* config holds a value the structured clone cannot copy: a function, here
\* under the caller's field onProgress
postMessageThrows(config) == "onProgress" \in DOMAIN config

processWithWebWorker(imageElement, config, cache, detectionWorker, browser) ==
    LET worker == createDetectionWorker(detectionWorker, browser)
    IN  IF worker = "null"
        THEN SyncPart("fallback", Pending, runAlgorithm(imageElement, config), worker)
        ELSE IF getImageDataThrows(imageElement)
        THEN SyncPart("threw",
                      Rejected(<<"Error en deteccion de sprites", "IndexSizeError">>),
                      Pending, worker)
        ELSE IF postMessageThrows(config)
        THEN SyncPart("postThrew",
                      Rejected(<<"Error en deteccion de sprites", "DataCloneError">>),
                      Pending, worker)
        ELSE SyncPart("worker", Pending, Pending, worker)

detectSpritesFromImage(imageElement, config, cache, detectionWorker, browser) ==
    LET error == validateInputs(imageElement, config)
        finalConfig == mergeConfig(config)
        cacheKey == getCacheKey(imageElement, finalConfig)
    IN  IF error # <<>>
        THEN SyncPart("invalid",
                      Rejected(<<"Error en deteccion de sprites">> \o error),
                      Pending, detectionWorker)
        ELSE IF /\ finalConfig.enableCache /\ ~finalConfig.forceRecalculation
                /\ cacheHas(cache, cacheKey)
        THEN SyncPart("cache", Resolved(cacheGet(cache, cacheKey)), Pending,
                      detectionWorker)
        ELSE IF finalConfig.useWebWorker /\ browser.hasWorker
        THEN processWithWebWorker(imageElement, finalConfig, cache,
                                  detectionWorker, browser)
        ELSE SyncPart("inline", Pending, runAlgorithm(imageElement, finalConfig),
                      detectionWorker)

(***************************************************************************)
(* processImageInChunks: the image's rows in bands of chunkSize bytes.     *)
(***************************************************************************)
\* DEFAULT_CONFIG.chunkSize: 1024 * 1024
DefaultChunkSize == 1048576
\* const bytesPerPixel = 4
BytesPerPixel == 4

\* config.chunkSize || DEFAULT_CONFIG.chunkSize: 0, NaN and undefined are
\* falsy
chunkSizeOf(config) ==
    LET chunkSize == Get(config, "chunkSize")
    IN  IF IsNum(chunkSize) /\ chunkSize[2] # 0
        THEN chunkSize[2] ELSE DefaultChunkSize

\* Math.floor(chunkSize / bytesPerPixel)
pixelsPerChunk(config) == chunkSizeOf(config) \div BytesPerPixel

\* Math.floor(pixelsPerChunk / w)
rowsPerChunk(config, w) == pixelsPerChunk(config) \div w

\* one entry of chunks: { startRow, endRow }
Chunk(startRow, endRow) == [startRow |-> startRow, endRow |-> endRow]

\* the rows startRow..endRow-1 of data, as processImageChunk copies them
\* into chunkData
chunkDataOf(data, startRow, endRow, width) ==
    [i \in 0..(width * (endRow - startRow) - 1) |-> data[startRow * width + i]]

\* processImageChunk copies its rows, sets frames = [] and resolves with
\* frames: the detection of the chunk is a comment in the source
processImageChunk(data, startRow, endRow, width, config) ==
    [chunkData |-> chunkDataOf(data, startRow, endRow, width),
     frames |-> <<>>]

\* before processImageInChunks is called
NoChunking ==
    [ pc |-> "idle", rowsPerChunk |-> 0, startRow |-> 0, chunks |-> <<>>,
      at |-> 0, processed |-> <<>>, allFrames |-> <<>>, outcome |-> Pending ]

(***************************************************************************)
(* State.                                                                  *)
(***************************************************************************)
VARIABLES
    image,      \* the image element under detection
    config,     \* the caller's config
    phase,      \* "input", "inline" (floodFillAlgorithm has run), "worker"
    inlineRun,  \* what floodFillAlgorithm did on image and config
    workerRun,  \* what the worker's processImageData did on them
    env,             \* the browser
    detectionCache,  \* the Map detectionCache
    detectionWorker, \* the module variable detectionWorker
    handlers,        \* the closure behind worker.onmessage and worker.onerror
    toWorker,        \* messages posted to the worker, not yet processed
    fromWorker,      \* the worker's answers, not yet delivered
    microtasks,      \* promise reactions queued on the main thread
    promises,        \* the promises of the calls in flight
    started,         \* the latest call: what its synchronous part did
    settled,         \* the latest promise settled: with what, by which path
    calls,           \* calls made (counted up to MaxCalls)
    inserts,         \* keys added to detectionCache so far
    AppState,        \* AppState.frames of the editor, and what it shares
    awaiting,        \* App.detectSprites is at its await
    chunking         \* one call of processImageInChunks: where it is

detectorVars == <<image, config, phase, inlineRun, workerRun>>

moduleVars ==
    <<env, detectionCache, detectionWorker, handlers, toWorker, fromWorker,
      microtasks, promises, started, settled, calls, inserts>>

editorVars == <<AppState, awaiting>>

chunkVars == <<chunking>>

vars == <<detectorVars, moduleVars, editorVars, chunkVars>>

NoRun ==
    [ done |-> FALSE, outcome |-> Resolved(<<>>), bgColor |-> Clear,
      data |-> <<>>, regions |-> <<>> ]

RunOf(outcome, run) ==
    [ done |-> TRUE, outcome |-> outcome, bgColor |-> run.bgColor,
      data |-> run.data, regions |-> run.regions ]

(***************************************************************************)
(* Inputs of the detector's specification.                                 *)
(***************************************************************************)
Dims(maxPixels, maxSide) ==
    {d \in (1..maxSide) \X (1..maxSide) : d[1] * d[2] <= maxPixels}

ImagesOver(colours, dims) ==
    UNION { {LoadedImage(d[1], d[2], px) : px \in [0..(d[1] * d[2] - 1) -> colours]}
            : d \in dims }

TwoColourImages == ImagesOver(TwoColours, Dims(MaxPixels, MaxSide))
RichImages ==
    ImagesOver(Palette, {d \in Dims(MaxRichPixels, MaxRichPixels) : 1 \in {d[1], d[2]}})

NoiseOff == [enableNoiseReduction |-> FALSE, noiseThreshold |-> DefaultNoiseThreshold]
NoiseOn(threshold) == [enableNoiseReduction |-> TRUE, noiseThreshold |-> threshold]

ShapeConfigs ==
    { [ tolerance |-> Num(DefaultTolerance), minSpriteSize |-> Num(m),
        use8WayConnectivity |-> e ] @@ n
      : m \in {1, 2, DefaultMinSpriteSize}, e \in BOOLEAN,
        n \in {NoiseOff, NoiseOn(DefaultNoiseThreshold)} }

ColourConfigs ==
    { [ tolerance |-> Num(t), minSpriteSize |-> Num(m),
        use8WayConnectivity |-> e ] @@ n
      : t \in {0, DefaultTolerance}, m \in {1},
        e \in BOOLEAN, n \in {NoiseOff, NoiseOn(DefaultNoiseThreshold)} }

\* an n x n image of the colour back with a side x side block of the colour
\* fore whose top-left pixel is (bx, by)
BlockImage(n, side, bx, by, back, fore) ==
    LoadedImage(n, n,
        [ i \in 0..(n * n - 1) |->
            IF /\ PixelX(i, n) >= bx /\ PixelX(i, n) < bx + side
               /\ PixelY(i, n) >= by /\ PixelY(i, n) < by + side
            THEN fore ELSE back ])

BlockPlaces(n) ==
    {p \in (1..n) \X (0..(n - 1)) \X (0..(n - 1)) :
        p[2] + p[1] <= n /\ p[3] + p[1] <= n}

BlockImages ==
    { BlockImage(MaxBlockSide, p[1], p[2], p[3], back, Black) :
        p \in BlockPlaces(MaxBlockSide), back \in {White, Clear} }

\* an n x n image with a 2 x 2 block at (1, 1) and two more pixels in a row,
\* the first of them diagonal to the block's last pixel
SpeckImage(n) ==
    LoadedImage(n, n,
        [ i \in 0..(n * n - 1) |->
            IF \/ PixelX(i, n) \in {1, 2} /\ PixelY(i, n) \in {1, 2}
               \/ PixelX(i, n) \in {3, 4} /\ PixelY(i, n) = 3
            THEN Black ELSE White ])

\* configs that enable the noise filter with a threshold other than the
\* default: 0, one below the default, one above it
NoiseConfigs ==
    { [ tolerance |-> Num(DefaultTolerance), minSpriteSize |-> Num(m),
        use8WayConnectivity |-> e ] @@ NoiseOn(t)
      : m \in {1, 2}, e \in BOOLEAN,
        t \in {0, DefaultNoiseThreshold - 1, DefaultNoiseThreshold + 1} }

NoiseImages == ImagesOver(TwoColours, Dims(MaxNoisePixels, MaxSide))

DetectInputs ==
    (TwoColourImages \X ShapeConfigs) \cup (RichImages \X ColourConfigs)
    \cup (BlockImages \X ShapeConfigs)
    \cup ({SpeckImage(MaxBlockSide)} \X ShapeConfigs)
    \cup (NoiseImages \X NoiseConfigs)

(***************************************************************************)
(* The module's state after it is loaded, and the records kept of calls.   *)
(***************************************************************************)
NoImage ==
    [ element |-> FALSE, complete |-> FALSE,
      naturalWidth |-> 0, naturalHeight |-> 0, pixels |-> <<>> ]

\* worker.onmessage / worker.onerror as set by processWithWebWorker: the
\* image, config and promise (slot; 0 once that promise is settled, when
\* resolve and reject do nothing) they close over
NoHandlers ==
    [installed |-> FALSE, slot |-> 0, img |-> NoImage, cfg |-> DEFAULT_CONFIG]

NoCall ==
    [ seq |-> 0, path |-> "none", kind |-> "none", img |-> NoImage,
      config |-> <<>>, frames |-> <<>>,
      consulted |-> FALSE, read |-> FALSE, posted |-> FALSE, ran |-> FALSE ]

NoSettle ==
    [ path |-> "none", kind |-> "none", img |-> NoImage, cfg |-> DEFAULT_CONFIG,
      frames |-> <<>>, error |-> <<>>, own |-> TRUE ]

\* AppState.frames (2_appState.js: frames: []).  entry is the insertion stamp
\* of the cache entry whose frame objects AppState.frames holds (0: none);
\* objects[k] is the place in that entry's array of the object frames[k] is
\* (0: an object of its own); sameArray tells whether AppState.frames is
\* that entry's array itself
NoFrames ==
    [frames |-> <<>>, objects |-> <<>>, entry |-> 0, sameArray |-> FALSE]

ModuleLoaded(browser) ==
    /\ AppState = NoFrames
    /\ chunking = NoChunking
    /\ awaiting = FALSE
    /\ env = browser
    /\ detectionCache = <<>>
    /\ detectionWorker = "null"
    /\ handlers = NoHandlers
    /\ toWorker = <<>>
    /\ fromWorker = <<>>
    /\ microtasks = <<>>
    /\ promises = [s \in 1..MaxInFlight |-> "free"]
    /\ started = NoCall
    /\ settled = NoSettle
    /\ calls = 0
    /\ inserts = 0

(***************************************************************************)
(* The detector's specification: one image and config, run through         *)
(* floodFillAlgorithm and then through the worker's processImageData.      *)
(***************************************************************************)
DetectInit ==
    /\ \E in \in DetectInputs : image = in[1] /\ config = in[2]
    /\ phase = "input"
    /\ inlineRun = NoRun
    /\ workerRun = NoRun
    /\ ModuleLoaded(Browser(TRUE, TRUE, TRUE))

RunInline ==
    /\ phase = "input"
    /\ phase' = "inline"
    /\ LET trace == floodFillTrace(image, config)
       IN  inlineRun' = RunOf(trace.outcome, trace.run)
    /\ UNCHANGED <<image, config, workerRun>>
    /\ UNCHANGED moduleVars
    /\ UNCHANGED <<editorVars, chunkVars>>

RunWorker ==
    /\ phase = "inline"
    /\ phase' = "worker"
    /\ LET run == processImageData(image.pixels, image.naturalWidth,
                                   image.naturalHeight, mergeConfig(config))
       IN  workerRun' = RunOf(Resolved(run.frames), run)
    /\ UNCHANGED <<image, config, inlineRun>>
    /\ UNCHANGED moduleVars
    /\ UNCHANGED <<editorVars, chunkVars>>

DetectNext == RunInline \/ RunWorker

SpecDetect == DetectInit /\ [][DetectNext]_vars

(***************************************************************************)
(* The module's actions: detectSpritesFromImage up to its return, the      *)
(* promise reactions it queued, the worker's onmessage, and the main       *)
(* thread's worker.onmessage and worker.onerror.                           *)
(***************************************************************************)
HasFreeSlot == \E s \in 1..MaxInFlight : promises[s] = "free"

FreeSlot ==
    CHOOSE s \in 1..MaxInFlight :
        /\ promises[s] = "free"
        /\ \A t \in 1..MaxInFlight : promises[t] = "free" => s <= t

\* a closure whose promise has been settled: its resolve and reject do nothing
Forget(closure, slot) ==
    IF slot # 0 /\ closure.slot = slot THEN [closure EXCEPT !.slot = 0] ELSE closure

ForgetAll(queue, slot) == [k \in 1..Len(queue) |-> Forget(queue[k], slot)]

Settle(slot) == IF slot = 0 THEN promises ELSE [promises EXCEPT ![slot] = "free"]

Settlement(path, outcome, img, cfg, own) ==
    [ path |-> path, kind |-> outcome.kind, img |-> img, cfg |-> cfg,
      frames |-> outcome.frames, error |-> outcome.error, own |-> own ]

\* detectionCache.set(key, frames); manageCacheSize()
Store(key, frames) ==
    /\ detectionCache' = manageCacheSize(cacheSet(detectionCache, key, frames,
                                                  inserts + 1))
    /\ inserts' = IF cacheHas(detectionCache, key) THEN inserts ELSE inserts + 1

\* a call of detectSpritesFromImage(img, cfg), up to its return
DetectCall(img, cfg) ==
    \E sync \in {detectSpritesFromImage(img, cfg, detectionCache, detectionWorker, env)} :
    LET finalConfig == mergeConfig(cfg)
        inFlight == sync.outcome.kind = "pending"
        reads == \/ sync.path \in {"worker", "threw", "postThrew"}
                 \/ /\ sync.path \in {"inline", "fallback"}
                    /\ img.naturalWidth # 0 /\ img.naturalHeight # 0
    IN  /\ inFlight => HasFreeSlot
        /\ detectionWorker' = sync.worker
        /\ handlers' =
              IF sync.path = "worker"
              THEN [installed |-> TRUE, slot |-> FreeSlot, img |-> img,
                    cfg |-> finalConfig]
              ELSE IF sync.path = "postThrew"
              THEN [installed |-> TRUE, slot |-> 0, img |-> img,
                    cfg |-> finalConfig]
              ELSE handlers
        /\ toWorker' =
              IF sync.path = "worker"
              THEN Append(toWorker, [img |-> img, cfg |-> finalConfig])
              ELSE toWorker
        /\ microtasks' =
              IF sync.path \in {"inline", "fallback"}
              THEN Append(microtasks,
                          [ kind |-> sync.path, slot |-> FreeSlot, img |-> img,
                            cfg |-> finalConfig, outcome |-> sync.later ])
              ELSE microtasks
        /\ promises' =
              IF inFlight THEN [promises EXCEPT ![FreeSlot] = "pending"]
              ELSE promises
        /\ started' =
              [ seq |-> 1 - started.seq, path |-> sync.path,
                kind |-> sync.outcome.kind, img |-> img, config |-> cfg,
                frames |-> sync.outcome.frames,
                consulted |-> /\ sync.path # "invalid"
                              /\ finalConfig.enableCache
                              /\ ~finalConfig.forceRecalculation,
                read |-> reads,
                posted |-> sync.path = "worker",
                ran |-> sync.path \in {"inline", "fallback"} ]
        /\ settled' =
              IF inFlight THEN settled
              ELSE Settlement(sync.path, sync.outcome, img, finalConfig, TRUE)
        /\ calls' = Min(calls + 1, MaxCalls)
        /\ UNCHANGED <<env, detectionCache, fromWorker, inserts, detectorVars,
                       chunkVars>>

\* the reactions on the algorithm's promise: .then(result => { cache;
\* resolve(result) }).catch(reject) of the main-thread branch,
\* .then(resolve).catch(reject) of the fallbacks
RunMicrotask ==
    /\ microtasks # <<>>
    /\ \E m \in {Head(microtasks)} :
       LET stores == /\ m.kind = "inline" /\ m.outcome.kind = "resolved"
                     /\ m.cfg.enableCache
       IN  /\ IF stores
              THEN Store(getCacheKey(m.img, m.cfg), m.outcome.frames)
              ELSE UNCHANGED <<detectionCache, inserts>>
           /\ microtasks' = ForgetAll(Tail(microtasks), m.slot)
           /\ handlers' = Forget(handlers, m.slot)
           /\ promises' = Settle(m.slot)
           /\ settled' =
                 IF m.slot = 0 THEN settled
                 ELSE Settlement(m.kind, m.outcome, m.img, m.cfg, TRUE)
    /\ UNCHANGED <<env, detectionWorker, toWorker, fromWorker, started, calls,
                   detectorVars,
                   editorVars, chunkVars>>

\* the worker's self.onmessage: processImageData on the message, answer posted
WorkerProcess ==
    /\ toWorker # <<>>
    /\ detectionWorker = "running"
    /\ LET m == Head(toWorker)
           run == processImageData(m.img.pixels, m.img.naturalWidth,
                                   m.img.naturalHeight, m.cfg)
       IN  fromWorker' = Append(fromWorker,
                                [ success |-> TRUE, frames |-> run.frames,
                                  img |-> m.img, cfg |-> m.cfg ])
    /\ toWorker' = Tail(toWorker)
    /\ UNCHANGED <<env, detectionCache, detectionWorker, handlers, microtasks,
                   promises, started, settled, calls, inserts, detectorVars,
                   editorVars, chunkVars>>

\* worker.onmessage, as last assigned, run on the worker's next answer
OnMessage ==
    /\ fromWorker # <<>>
    /\ microtasks = <<>>
    /\ LET m == Head(fromWorker)
           outcome == IF m.success THEN Resolved(m.frames)
                      ELSE Rejected(<<"Error en Web Worker">>)
       IN  /\ IF m.success /\ handlers.cfg.enableCache
              THEN Store(getCacheKey(handlers.img, handlers.cfg), m.frames)
              ELSE UNCHANGED <<detectionCache, inserts>>
           /\ settled' =
                 IF handlers.slot = 0 THEN settled
                 ELSE Settlement("worker", outcome, handlers.img, handlers.cfg,
                                 m.img = handlers.img /\ m.cfg = handlers.cfg)
    /\ fromWorker' = Tail(fromWorker)
    /\ handlers' = Forget(handlers, handlers.slot)
    /\ promises' = Settle(handlers.slot)
    /\ UNCHANGED <<env, detectionWorker, toWorker, microtasks, started, calls,
                   detectorVars,
                   editorVars, chunkVars>>

\* the worker's error event: worker.onerror, as last assigned, calls the
\* algorithm on its own image and config
OnWorkerError ==
    /\ detectionWorker = "failing"
    /\ microtasks = <<>>
    /\ detectionWorker' = "dead"
    /\ microtasks' =
          IF handlers.installed
          THEN << [ kind |-> "fallback", slot |-> handlers.slot,
                    img |-> handlers.img, cfg |-> handlers.cfg,
                    outcome |-> runAlgorithm(handlers.img, handlers.cfg) ] >>
          ELSE <<>>
    /\ UNCHANGED <<env, detectionCache, handlers, toWorker, fromWorker, promises,
                   started, settled, calls, inserts, detectorVars,
                   editorVars, chunkVars>>

(***************************************************************************)
(* Inputs of the module's specification: two images of the same size, an   *)
(* image without pixels, a missing one and one still loading; the caller's *)
(* config of App.detectSprites and its variations.                         *)
(***************************************************************************)
ImgA == BlockImage(3, 2, 1, 1, White, Black)
ImgB == BlockImage(3, 2, 0, 0, White, Black)
ImgZero == LoadedImage(0, 0, <<>>)
ImgLoading == [NoImage EXCEPT !.element = TRUE]

AppConfig == [tolerance |-> Num(DefaultTolerance)]

ValidConfigs ==
    { AppConfig,
      [forceRecalculation |-> TRUE] @@ AppConfig,
      [useWebWorker |-> FALSE] @@ AppConfig,
      [enableCache |-> FALSE] @@ AppConfig,
      [algorithm |-> "contour"] @@ AppConfig,
      [algorithm |-> "ai"] @@ AppConfig,
      [tolerance |-> NaN] }

InvalidConfigs ==
    { [tolerance |-> Num(MinTolerance - 1)], [tolerance |-> Num(MaxTolerance + 1)],
      [minSpriteSize |-> Num(MinMinSpriteSize - 1)] @@ AppConfig }

CallInputs ==
    ({ImgA} \X (ValidConfigs \cup InvalidConfigs))
    \cup ({ImgB, ImgZero} \X {AppConfig, [useWebWorker |-> FALSE] @@ AppConfig})
    \cup ({ImgB} \X { [algorithm |-> "contour", useWebWorker |-> FALSE] @@ AppConfig,
                      [algorithm |-> "ai", minSpriteSize |-> Num(1),
                       use8WayConnectivity |-> TRUE] @@ AppConfig })
    \cup ({NoImage, ImgLoading} \X {AppConfig})
    \cup ({ImgA} \X {[onProgress |-> "function"] @@ AppConfig})

Init ==
    /\ \E browser \in Browsers : ModuleLoaded(browser)
    /\ image = NoImage /\ config = AppConfig /\ phase = "module"
    /\ inlineRun = NoRun /\ workerRun = NoRun

Call ==
    \E in \in CallInputs :
        /\ calls < MaxCalls
        /\ DetectCall(in[1], in[2])
        /\ UNCHANGED <<editorVars, chunkVars>>

Next == Call \/ RunMicrotask \/ WorkerProcess \/ OnMessage \/ OnWorkerError

Spec == Init /\ [][Next]_vars

(***************************************************************************)
(* The cache's specification: calls on one image whose keys differ by the  *)
(* tolerance.  A call uses the first key or the key numbered by the        *)
(* insertions made so far (a key not used before, while every call stores  *)
(* its result); it may force a recalculation and may switch the            *)
(* worker off.  The caller awaits each call before it makes the next.      *)
(***************************************************************************)
CacheConfig(t, force, useWorker) ==
    [ tolerance |-> Num(t), forceRecalculation |-> force,
      useWebWorker |-> useWorker ]

CacheCall ==
    \E t \in {0, inserts}, force \in BOOLEAN, useWorker \in BOOLEAN :
        /\ inserts < MaxInserts
        /\ \A s \in 1..MaxInFlight : promises[s] = "free"
        /\ DetectCall(ImgA, CacheConfig(t, force, useWorker))
        /\ UNCHANGED <<editorVars, chunkVars>>

CacheNext ==
    CacheCall \/ RunMicrotask \/ WorkerProcess \/ OnMessage \/ OnWorkerError

SpecCache == Init /\ [][CacheNext]_vars

(***************************************************************************)
(* Regions of a pixel buffer, defined from the pixel grid alone (no        *)
(* queue, no scan): what the claims about the detector are stated with.    *)
(***************************************************************************)
\* the non-background pixels of a buffer under a background colour
Foreground(pixels, bgColor, tolerance) ==
    {i \in DOMAIN pixels : ~isBackgroundColor(pixels[i], bgColor, tolerance)}

Adjacent4(p, q, w) ==
    Abs(PixelX(p, w) - PixelX(q, w)) + Abs(PixelY(p, w) - PixelY(q, w)) = 1

Adjacent8(p, q, w) ==
    /\ p # q
    /\ Abs(PixelX(p, w) - PixelX(q, w)) <= 1
    /\ Abs(PixelY(p, w) - PixelY(q, w)) <= 1

AdjacentUnder(eight, p, q, w) ==
    IF eight THEN Adjacent8(p, q, w) ELSE Adjacent4(p, q, w)

\* the pixels of fg connected to the set S, the pixels of new being the ones
\* of S whose neighbours are still to be added
RECURSIVE Reach(_, _, _, _, _)
Reach(S, new, fg, w, eight) ==
    LET next == {q \in fg \ S : \E p \in new : AdjacentUnder(eight, p, q, w)}
    IN  IF next = {} THEN S ELSE Reach(S \cup next, next, fg, w, eight)

ComponentOf(p, fg, w, eight) == Reach({p}, {p}, fg, w, eight)

Components(fg, w, eight) == {ComponentOf(p, fg, w, eight) : p \in fg}

SetMin(S) == CHOOSE m \in S : \A n \in S : m <= n
SetMax(S) == CHOOSE m \in S : \A n \in S : m >= n

\* the minimal axis-aligned rectangle containing the pixels S
BoundingBox(S, w) ==
    LET xs == {PixelX(i, w) : i \in S}
        ys == {PixelY(i, w) : i \in S}
    IN  [ x |-> SetMin(xs), y |-> SetMin(ys),
          w |-> SetMax(xs) - SetMin(xs) + 1,
          h |-> SetMax(ys) - SetMin(ys) + 1 ]

\* S is a filled rectangle / a filled square
IsBlock(S, w) ==
    S # {} /\ Cardinality(S) = BoundingBox(S, w).w * BoundingBox(S, w).h

IsSquareBlock(S, w) ==
    IsBlock(S, w) /\ BoundingBox(S, w).w = BoundingBox(S, w).h

\* the seeds of the fills that emitted a frame, in emission order
EmittedSeeds(run) ==
    LET emitted == SelectSeq(run.regions, LAMBDA r : r.emitted)
    IN  [k \in 1..Len(emitted) |-> emitted[k].seed]

FinalConfig == mergeConfig(config)
MinSize == FinalConfig.minSpriteSize[2]
Eight == FinalConfig.use8WayConnectivity
NoiseEnabled == FinalConfig.enableNoiseReduction

\* the runs never change once made: each is looked at in the state its
\* action produced
JustRanInline == phase = "inline"
JustRanWorker == phase = "worker"

\* the foreground of the image as a run saw it, under the run's background
RunForeground(run) ==
    Foreground(image.pixels, run.bgColor, FinalConfig.tolerance)

(***************************************************************************)
(* C1: with noise reduction disabled, a detection run returns exactly one  *)
(* frame per connected component (under the configured connectivity) of    *)
(* non-background pixels with at least minSpriteSize pixels, and no other  *)
(* frame; each frame's rect is its component's minimal bounding box.       *)
(***************************************************************************)
OneFramePerComponent(run) ==
    LET w == image.naturalWidth
        fg == RunForeground(run)
        frames == run.outcome.frames
        seeds == EmittedSeeds(run)
        big == {C \in Components(fg, w, Eight) : Cardinality(C) >= MinSize}
    IN  /\ run.outcome.kind = "resolved"
        /\ Len(frames) = Cardinality(big)
        /\ Len(seeds) = Len(frames)
        /\ \A k \in 1..Len(frames) :
              /\ seeds[k] \in fg
              /\ ComponentOf(seeds[k], fg, w, Eight) \in big
              /\ frames[k].rect = BoundingBox(ComponentOf(seeds[k], fg, w, Eight), w)
        /\ \A j, k \in 1..Len(frames) :
              j # k => ComponentOf(seeds[j], fg, w, Eight)
                       # ComponentOf(seeds[k], fg, w, Eight)

C1_FramesAreComponents ==
    ~NoiseEnabled =>
        /\ JustRanInline => OneFramePerComponent(inlineRun)
        /\ JustRanWorker => OneFramePerComponent(workerRun)

\* an 8-connected run without noise filter that emitted a frame for a
\* component that is not a filled rectangle, and dropped another region
C1_Witness ==
    /\ ~NoiseEnabled /\ Eight /\ phase = "inline"
    /\ Len(inlineRun.outcome.frames) >= 1
    /\ \E k \in 1..Len(inlineRun.regions) : ~inlineRun.regions[k].emitted
    /\ ~IsBlock(ComponentOf(EmittedSeeds(inlineRun)[1], RunForeground(inlineRun),
                            image.naturalWidth, Eight),
                image.naturalWidth)

(***************************************************************************)
(* C2 (as stated): for a buffer whose foreground is exactly one k-pixel    *)
(* square block, detectSpritesFromImage returns exactly one frame bounding *)
(* the block when minSpriteSize <= k and no frame when minSpriteSize > k;  *)
(* an all-background image returns no frame.                               *)
(***************************************************************************)
AllBackgroundNoFrame(run) ==
    RunForeground(run) = {} =>
        run.outcome.kind = "resolved" /\ run.outcome.frames = <<>>

OneBlockDetected(run) ==
    LET w == image.naturalWidth
        fg == RunForeground(run)
        frames == run.outcome.frames
    IN  IsSquareBlock(fg, w) =>
            /\ run.outcome.kind = "resolved"
            /\ IF MinSize <= Cardinality(fg)
               THEN Len(frames) = 1 /\ frames[1].rect = BoundingBox(fg, w)
               ELSE frames = <<>>

C2_Original ==
    /\ JustRanInline =>
          AllBackgroundNoFrame(inlineRun) /\ OneBlockDetected(inlineRun)
    /\ JustRanWorker =>
          AllBackgroundNoFrame(workerRun) /\ OneBlockDetected(workerRun)

\* C2 (amended): the same, for runs whose noise filter is disabled or whose
\* block has more pixels than the threshold the filter applies
\* (noiseThreshold, 2 when noiseThreshold is 0).
SurvivesNoise(S) ==
    ~NoiseEnabled \/ Cardinality(S) > noiseThresholdOf(FinalConfig)

C2_OneBlock ==
    /\ JustRanInline =>
          /\ AllBackgroundNoFrame(inlineRun)
          /\ SurvivesNoise(RunForeground(inlineRun)) => OneBlockDetected(inlineRun)
    /\ JustRanWorker =>
          /\ AllBackgroundNoFrame(workerRun)
          /\ SurvivesNoise(RunForeground(workerRun)) => OneBlockDetected(workerRun)

\* a 3 x 3 block strictly inside a 5 x 5 image, detected with the noise
\* filter enabled and the default minSpriteSize
C2_Witness ==
    /\ inlineRun.done /\ NoiseEnabled /\ MinSize = DefaultMinSpriteSize
    /\ image.naturalWidth = 5
    /\ IsSquareBlock(RunForeground(inlineRun), 5)
    /\ BoundingBox(RunForeground(inlineRun), 5) = [x |-> 1, y |-> 1, w |-> 3, h |-> 3]
    /\ Len(inlineRun.outcome.frames) = 1

(***************************************************************************)
(* C3 (as stated): two foreground blocks with at least one background      *)
(* pixel between them in every direction produce two frames; two blocks    *)
(* that touch only diagonally produce two frames under 4-connectivity and  *)
(* one merged frame under 8-connectivity.                                  *)
(***************************************************************************)
\* the foreground is exactly two blocks (filled rectangles that share no edge)
TwoBlocks(fg, w) ==
    /\ Cardinality(Components(fg, w, FALSE)) = 2
    /\ \A C \in Components(fg, w, FALSE) : IsBlock(C, w)

TouchDiagonally(fg, w) == \E p, q \in fg : Adjacent8(p, q, w) /\ ~Adjacent4(p, q, w)
                                           /\ ComponentOf(p, fg, w, FALSE)
                                              # ComponentOf(q, fg, w, FALSE)

TwoBlocksDetected(run) ==
    LET w == image.naturalWidth
        fg == RunForeground(run)
        frames == run.outcome.frames
        rects == {frames[k].rect : k \in 1..Len(frames)}
    IN  TwoBlocks(fg, w) =>
            IF TouchDiagonally(fg, w) /\ Eight
            THEN Len(frames) = 1 /\ frames[1].rect = BoundingBox(fg, w)
            ELSE /\ Len(frames) = 2
                 /\ rects = {BoundingBox(C, w) : C \in Components(fg, w, FALSE)}

C3_Original ==
    /\ JustRanInline => TwoBlocksDetected(inlineRun)
    /\ JustRanWorker => TwoBlocksDetected(workerRun)

\* C3 (amended): the same for two blocks that each have at least
\* minSpriteSize pixels and, when the noise filter is enabled, each more
\* pixels than the threshold the filter applies.
BlocksLargeEnough(fg, w) ==
    \A C \in Components(fg, w, FALSE) :
        Cardinality(C) >= MinSize /\ SurvivesNoise(C)

C3_TwoBlocks ==
    /\ JustRanInline =>
          (BlocksLargeEnough(RunForeground(inlineRun), image.naturalWidth)
             => TwoBlocksDetected(inlineRun))
    /\ JustRanWorker =>
          (BlocksLargeEnough(RunForeground(workerRun), image.naturalWidth)
             => TwoBlocksDetected(workerRun))

\* two blocks touching only diagonally, merged into one frame by an
\* 8-connected run
C3_WitnessMerged ==
    /\ inlineRun.done /\ Eight
    /\ TwoBlocks(RunForeground(inlineRun), image.naturalWidth)
    /\ TouchDiagonally(RunForeground(inlineRun), image.naturalWidth)
    /\ BlocksLargeEnough(RunForeground(inlineRun), image.naturalWidth)
    /\ Len(inlineRun.outcome.frames) = 1

(***************************************************************************)
(* C4: in every frame list a detection run returns, the frame at index i   *)
(* has id i and name "sprite_i"; frames are in row-major order of their    *)
(* regions' first pixels; a region discarded for its size consumes no id.  *)
(***************************************************************************)
IdsInScanOrder(run) ==
    LET frames == run.outcome.frames
        seeds == EmittedSeeds(run)
    IN  /\ Len(seeds) = Len(frames)
        /\ \A i \in 0..(Len(frames) - 1) :
              /\ frames[i + 1].id = i
              /\ frames[i + 1].name = <<"sprite_", i>>
        /\ \A k \in 1..Len(run.regions) :
              \A n \in 1..Len(run.regions[k].pushed) :
                  run.regions[k].seed <= run.regions[k].pushed[n]
        /\ \A i, j \in 1..Len(seeds) : i < j => seeds[i] < seeds[j]

C4_IdsInScanOrder ==
    /\ JustRanInline => IdsInScanOrder(inlineRun)
    /\ JustRanWorker => IdsInScanOrder(workerRun)

\* a run that emitted a frame, then dropped a region, then emitted a frame
C4_Witness ==
    /\ workerRun.done
    /\ \E a, b, c \in 1..Len(workerRun.regions) :
          /\ a < b /\ b < c
          /\ workerRun.regions[a].emitted
          /\ ~workerRun.regions[b].emitted
          /\ workerRun.regions[c].emitted

(***************************************************************************)
(* What the claims about the module are stated with.                       *)
(***************************************************************************)
\* no call in flight: every promise settled, nothing queued or in transit
Quiet ==
    /\ \A s \in 1..MaxInFlight : promises[s] = "free"
    /\ microtasks = <<>> /\ toWorker = <<>> /\ fromWorker = <<>>

\* this step is a call of detectSpritesFromImage
CallStep == started'.seq # started.seq

\* identical image dimensions and identical critical config
SameCritical(img1, cfg1, img2, cfg2) ==
    /\ img1.naturalWidth = img2.naturalWidth
    /\ img1.naturalHeight = img2.naturalHeight
    /\ cfg1.tolerance = cfg2.tolerance
    /\ cfg1.minSpriteSize = cfg2.minSpriteSize
    /\ cfg1.use8WayConnectivity = cfg2.use8WayConnectivity
    /\ cfg1.algorithm = cfg2.algorithm

\* the step is the second of two calls with the same dimensions and critical
\* config, both with caching enabled and valid inputs, made after the first
\* resolved and with no other call in flight
SecondCall ==
    /\ CallStep /\ Quiet
    /\ settled.kind = "resolved" /\ settled.cfg.enableCache
    /\ settled.img = started.img /\ settled.cfg = mergeConfig(started.config)
    /\ started'.path # "invalid"
    /\ mergeConfig(started'.config).enableCache
    /\ SameCritical(settled.img, settled.cfg,
                    started'.img, mergeConfig(started'.config))

SecondCallServed ==
    IF mergeConfig(started'.config).forceRecalculation
    THEN started'.ran \/ started'.posted
    ELSE /\ started'.kind = "resolved" /\ started'.frames = settled.frames
         /\ ~started'.ran /\ ~started'.posted

(***************************************************************************)
(* C5 (as stated): of two detectSpritesFromImage calls with identical      *)
(* image dimensions and critical config and caching enabled, the second    *)
(* with forceRecalculation false returns the first's array without the     *)
(* fill algorithm being invoked again (on the main thread or by a message  *)
(* to the worker); with forceRecalculation true the algorithm runs again.  *)
(***************************************************************************)
C5_Original == [][SecondCall => SecondCallServed]_vars

(***************************************************************************)
(* C6: when more distinct keys than CACHE_MAX_SIZE are inserted, the key   *)
(* that leaves the cache is the earliest-inserted one and every            *)
(* later-inserted key stays (in its place); a cache hit leaves the cache,  *)
(* and so every key's eviction position, as it was.                        *)
(***************************************************************************)
Keys(cache) == {cache[k].key : k \in 1..Len(cache)}

Stamps(cache) == {cache[k].stamp : k \in 1..Len(cache)}

\* a step that inserts a new key: the key is in the cache afterwards, as
\* the latest; when the cache was full exactly one key left it, the one
\* inserted earliest; every other key is still there, in the same order
Evicts ==
    IF inserts' = inserts
    THEN Keys(detectionCache') = Keys(detectionCache)
    ELSE LET gone == Keys(detectionCache) \ Keys(detectionCache')
             kept == SelectSeq(detectionCache, LAMBDA e : e.key \notin gone)
         IN  /\ Len(detectionCache') = Len(kept) + 1
             /\ detectionCache'[Len(detectionCache')].stamp = inserts'
             /\ detectionCache'[Len(detectionCache')].key \notin Keys(detectionCache)
             /\ \A k \in 1..Len(kept) : detectionCache'[k].key = kept[k].key
             /\ IF Len(detectionCache) < CACHE_MAX_SIZE
                THEN gone = {}
                ELSE \E e \in {detectionCache[k] : k \in 1..Len(detectionCache)} :
                        /\ gone = {e.key}
                        /\ \A n \in Stamps(detectionCache) : e.stamp <= n

HitKeepsOrder ==
    (CallStep /\ started'.path = "cache") => detectionCache' = detectionCache

C6_EvictsOldest == [][Evicts /\ HitKeepsOrder]_vars

\* two keys were evicted (the first key is back, as the latest insertion),
\* and the latest call was answered from the cache
C6_Witness ==
    /\ inserts = CACHE_MAX_SIZE + 2
    /\ Len(detectionCache) = CACHE_MAX_SIZE
    /\ \A k \in 1..Len(detectionCache) : detectionCache[k].stamp = k + 2
    /\ started.path = "cache"

(***************************************************************************)
(* C7: after any sequence of calls the detection cache holds at most       *)
(* CACHE_MAX_SIZE entries, once each call's result handling has finished   *)
(* (every state of the specification is such a state: a handler's set and  *)
(* manageCacheSize are one step).                                          *)
(***************************************************************************)
C7_CacheBounded == Len(detectionCache) <= CACHE_MAX_SIZE

\* the cache is full after a key was evicted by a result from the worker
C7_Witness ==
    /\ inserts > CACHE_MAX_SIZE
    /\ Len(detectionCache) = CACHE_MAX_SIZE
    /\ settled.path = "worker" /\ settled.kind = "resolved"
    /\ detectionCache[CACHE_MAX_SIZE].key = getCacheKey(settled.img, settled.cfg)
    /\ detectionCache[CACHE_MAX_SIZE].stamp = inserts

(***************************************************************************)
(* C8: a call with algorithm "contour" or "ai" whose result is computed    *)
(* (on the main thread or by the worker) settles as the same call with     *)
(* algorithm "floodFill" does on that path: with the same frame list, and  *)
(* not with an error where floodFill gives none.                           *)
(***************************************************************************)
AsFloodFill(cfg) == [cfg EXCEPT !.algorithm = "floodFill"]

C8_SameAsFloodFill ==
    settled.cfg.algorithm \in {"contour", "ai"} =>
        /\ settled.path \in {"inline", "fallback"} =>
              LET ff == floodFillAlgorithm(settled.img, AsFloodFill(settled.cfg))
              IN  settled.kind = ff.kind /\ settled.frames = ff.frames
        /\ (settled.path = "worker" /\ settled.own) =>
              /\ settled.kind = "resolved"
              /\ settled.frames =
                    processImageData(settled.img.pixels, settled.img.naturalWidth,
                                     settled.img.naturalHeight,
                                     AsFloodFill(settled.cfg)).frames

\* a "contour" call computed on the main thread resolved with a frame
C8_Witness ==
    /\ settled.cfg.algorithm = "contour" /\ settled.path = "inline"
    /\ settled.kind = "resolved" /\ Len(settled.frames) = 1

(***************************************************************************)
(* C9 (as stated): a call whose config has a tolerance outside [0,255] or  *)
(* a minSpriteSize below 1, or whose image is missing or not fully loaded, *)
(* is rejected before any pixel is read, before the cache is consulted and *)
(* before any message is sent to the worker.                               *)
(***************************************************************************)
InRange(v, low, high) == JsGe(v, Num(low)) /\ JsLe(v, Num(high))

BadInput(img, cfg) ==
    \/ ~img.element
    \/ ~img.complete
    \/ /\ "tolerance" \in DOMAIN cfg
       /\ ~InRange(cfg.tolerance, MinTolerance, MaxTolerance)
    \/ /\ "minSpriteSize" \in DOMAIN cfg
       /\ ~JsGe(cfg.minSpriteSize, Num(MinMinSpriteSize))

RejectedAtOnce ==
    /\ started.kind = "rejected" /\ started.path = "invalid"
    /\ ~started.consulted /\ ~started.read /\ ~started.posted /\ ~started.ran

C9_Original ==
    (started.kind # "none" /\ BadInput(started.img, started.config))
        => RejectedAtOnce

(***************************************************************************)
(* C10 (as stated): for an image (present and loaded) whose width or       *)
(* height is zero, detectSpritesFromImage resolves with an empty frame     *)
(* list and does not reject, with the worker enabled or disabled.          *)
(***************************************************************************)
C10_Original ==
    ( /\ settled.kind # "none" /\ settled.path # "invalid"
      /\ (settled.img.naturalWidth = 0 \/ settled.img.naturalHeight = 0) )
        => settled.kind = "resolved" /\ settled.frames = <<>>

(***************************************************************************)
(* C11 (as stated): whenever the worker path cannot be built or the        *)
(* exchange with the worker fails (no Worker support, the constructor      *)
(* throws, the worker's error event, a failure answer, a post that         *)
(* throws), the call settles as the synchronous algorithm on its image and *)
(* config does: it is rejected only if that run fails.                     *)
(***************************************************************************)
WorkerPathFailed ==
    \/ settled.path \in {"fallback", "postThrew"}
    \/ settled.path = "worker" /\ settled.kind = "rejected"
    \/ settled.path = "inline" /\ settled.cfg.useWebWorker /\ ~env.hasWorker

C11_Original ==
    WorkerPathFailed =>
        LET sync == runAlgorithm(settled.img, settled.cfg)
        IN  settled.kind = sync.kind /\ settled.frames = sync.frames

(***************************************************************************)
(* C12 (as stated): for every pixel buffer and config the worker's         *)
(* processImageData returns the frame list floodFillAlgorithm returns on   *)
(* the main thread, with the same (border-estimated) background colour.    *)
(***************************************************************************)
C12_Original ==
    JustRanWorker =>
        /\ workerRun.outcome.frames = inlineRun.outcome.frames
        /\ workerRun.bgColor = inlineRun.bgColor

(***************************************************************************)
(* C13 (as stated): with noise reduction enabled, every (4-)connected      *)
(* foreground region of at most noiseThreshold pixels has all its pixels   *)
(* repainted to bgColor, is background for the detection scan and gives no *)
(* frame, whatever minSpriteSize and whatever the background colour.       *)
(***************************************************************************)
SmallRegions(run) ==
    { C \in Components(RunForeground(run), image.naturalWidth, FALSE) :
        Cardinality(C) <= FinalConfig.noiseThreshold }

RegionErased(C, run) ==
    /\ \A p \in C :
          /\ run.data[p] = run.bgColor
          /\ isBackgroundColor(run.data[p], run.bgColor, FinalConfig.tolerance)
    /\ \A k \in 1..Len(run.regions) :
          \A n \in 1..Len(run.regions[k].pushed) : run.regions[k].pushed[n] \notin C

C13_Original ==
    (JustRanInline /\ NoiseEnabled) =>
        \A C \in SmallRegions(inlineRun) : RegionErased(C, inlineRun)

(***************************************************************************)
(* C14: for every image (width and height at least 1) whose border pixels  *)
(* all have one colour C, detectBackgroundColor returns C whatever the     *)
(* interior is.  Checked on the image of the run; and, for an image large  *)
(* enough for the sampling stride to exceed 1, every pixel                 *)
(* detectBackgroundColor samples is a border pixel.                        *)
(***************************************************************************)
OnBorder(i, w, h) ==
    \/ PixelX(i, w) = 0 \/ PixelX(i, w) = w - 1
    \/ PixelY(i, w) = 0 \/ PixelY(i, w) = h - 1

BorderUniform ==
    \A i \in DOMAIN image.pixels :
        OnBorder(i, image.naturalWidth, image.naturalHeight)
            => image.pixels[i] = image.pixels[0]

\* the sides of the large image
WideSide == SampleDivisor * image.naturalWidth + image.naturalHeight
HighSide == SampleDivisor * image.naturalHeight + image.naturalWidth

SamplesOnBorder(w, h) ==
    \E idx \in {borderIndices(w, h)} :
        /\ Len(idx) >= 1
        /\ \A k \in 1..Len(idx) :
              idx[k] \in 0..(w * h - 1) /\ OnBorder(idx[k], w, h)

C14_UniformBorder ==
    (JustRanInline /\ BorderUniform) =>
        /\ inlineRun.bgColor = image.pixels[0]
        /\ SamplesOnBorder(image.naturalWidth, image.naturalHeight)
        /\ SamplesOnBorder(WideSide, HighSide)

\* a transparent border around an opaque interior, in an image sampled with
\* stride 1 and a large one sampled with stride 5
C14_Witness ==
    /\ phase = "inline" /\ BorderUniform
    /\ image.naturalWidth = MaxBlockSide /\ image.pixels[0] = Clear
    /\ \E i \in DOMAIN image.pixels : image.pixels[i] = Black
    /\ Stride(WideSide) = MaxBlockSide
    /\ inlineRun.bgColor = Clear

(***************************************************************************)
(* C15: isBackgroundColor returns true for every pixel with alpha 0,       *)
(* whatever bgColor and tolerance are, and false for every pixel with      *)
(* nonzero alpha whenever bgColor's alpha is below 255, whatever the       *)
(* R, G, B values and the tolerance are.                                   *)
(***************************************************************************)
ToleranceValues == {Num(0), Num(DefaultTolerance), Num(255 + 255 + 255), NaN, Undefined}

AlphaRules(px, bgColor, tolerance) ==
    /\ px[4] = 0 => isBackgroundColor(px, bgColor, tolerance)
    /\ (px[4] # 0 /\ bgColor[4] < 255) => ~isBackgroundColor(px, bgColor, tolerance)

C15_AlphaRules ==
    JustRanInline =>
        \A i \in DOMAIN image.pixels :
            /\ \A bgColor \in Palette, tolerance \in ToleranceValues :
                  AlphaRules(image.pixels[i], bgColor, tolerance)
            /\ AlphaRules(image.pixels[i], inlineRun.bgColor, FinalConfig.tolerance)

\* a transparent pixel next to a translucent one under a background that is
\* not opaque, and a transparent pixel under an opaque background far from it
C15_Witness ==
    /\ JustRanInline
    /\ \E i, j \in DOMAIN image.pixels :
          /\ image.pixels[i] = Clear
          /\ image.pixels[j] \in {White, Black}
          /\ inlineRun.bgColor[4] < 255
          /\ i \notin RunForeground(inlineRun)
          /\ j \in RunForeground(inlineRun)
    /\ \E i \in DOMAIN image.pixels :
          image.pixels[i] = Clear /\ isBackgroundColor(image.pixels[i], White, Num(0))

(***************************************************************************)
(* C16: for every bgColor, a pixel whose R, G, B equal bgColor's is        *)
(* classified background at tolerance 0, and for every tolerance a pixel   *)
(* whose summed absolute R, G, B difference from bgColor is tolerance + 1  *)
(* is not classified background (alpha is excluded from the distance).     *)
(***************************************************************************)
RgbDistance(px, bgColor) ==
    Abs(px[1] - bgColor[1]) + Abs(px[2] - bgColor[2]) + Abs(px[3] - bgColor[3])

\* the two halves of the sentence, for one pixel and one background
ZeroDistanceIsBackground(px, bgColor) ==
    RgbDistance(px, bgColor) = 0 => isBackgroundColor(px, bgColor, Num(0))

OneOverIsNotBackground(px, bgColor) ==
    \A tolerance \in {RgbDistance(px, bgColor) - 1} :
        tolerance >= 0 => ~isBackgroundColor(px, bgColor, Num(tolerance))

BackgroundsOf(run) == Palette \cup {run.bgColor}

C16_Original ==
    JustRanInline =>
        \A i \in DOMAIN image.pixels, bgColor \in BackgroundsOf(inlineRun) :
            /\ ZeroDistanceIsBackground(image.pixels[i], bgColor)
            /\ OneOverIsNotBackground(image.pixels[i], bgColor)

\* as stated, where rule 3 of the predicate applies: the first half for an
\* opaque bgColor or a transparent pixel, the second for a pixel with
\* nonzero alpha; under an opaque bgColor the distance itself is within
\* the tolerance
C16_DistanceRule ==
    JustRanInline =>
        \A i \in DOMAIN image.pixels, bgColor \in BackgroundsOf(inlineRun) :
            LET px == image.pixels[i]
            IN  /\ (bgColor[4] = 255 \/ px[4] = 0)
                      => ZeroDistanceIsBackground(px, bgColor)
                /\ px[4] # 0 => OneOverIsNotBackground(px, bgColor)
                /\ bgColor[4] = 255
                      => isBackgroundColor(px, bgColor, Num(RgbDistance(px, bgColor)))

\* a translucent pixel with the R, G, B of the opaque background the run
\* found, taken as background at tolerance 0
C16_Witness ==
    /\ JustRanInline
    /\ FinalConfig.tolerance = Num(0)
    /\ inlineRun.bgColor = Black
    /\ \E i, j \in DOMAIN image.pixels :
          /\ image.pixels[i] = Glass
          /\ i \notin RunForeground(inlineRun)
          /\ image.pixels[j] = NearWhite
          /\ j \in RunForeground(inlineRun)

(***************************************************************************)
(* C17: every detectSpritesFromImage call that resolves successfully with  *)
(* caching enabled leaves an entry for its cache key holding the returned  *)
(* frames, whichever path produced the result (inline, worker, or the      *)
(* synchronous fallback after the worker was unavailable or errored).      *)
(***************************************************************************)
ResolvesCached == 
    /\ settled' # settled
    /\ settled'.kind = "resolved"
    /\ settled'.cfg.enableCache

LeavesEntry ==
    \E key \in {getCacheKey(settled'.img, settled'.cfg)} :
        /\ cacheHas(detectionCache', key)
        /\ cacheGet(detectionCache', key) = settled'.frames

C17_Original == [][ResolvesCached => LeavesEntry]_vars

(***************************************************************************)
(* The editor (main.js): App.detectSprites, App.addNewFrame,               *)
(* App.deleteFrame, App.trimSpritesheet and the load of a new image, on    *)
(* AppState.frames and DOM.imageDisplay (the variable image).              *)
(* detectSpritesFromImage resolves with the array it stored in (or read    *)
(* from) detectionCache, so AppState.frames can be a cached array, and the *)
(* frames in it the objects of a cached array.  The editor's handlers      *)
(* run one at a time: the loader covers the page while one is waiting.     *)
(***************************************************************************)
\* the place in detectionCache of the entry inserted with this stamp, 0 when
\* it is not there any more
EntryAt(entries, stamp) ==
    IF \E k \in 1..Len(entries) : entries[k].stamp = stamp
    THEN CHOOSE k \in 1..Len(entries) : entries[k].stamp = stamp
    ELSE 0

\* detectionCache once the editor has written to AppState.frames (state is
\* the new AppState): the entry it shares its array or its frame objects
\* with shows the same writes
WriteThrough(entries, state) ==
    LET at == EntryAt(entries, state.entry)
        Shared(j) == \E k \in 1..Len(state.frames) : state.objects[k] = j
        Holder(j) == CHOOSE k \in 1..Len(state.frames) : state.objects[k] = j
    IN  IF at = 0 THEN entries
        ELSE IF state.sameArray
        THEN [entries EXCEPT ![at].frames = state.frames]
        ELSE [entries EXCEPT ![at].frames =
                 [ j \in 1..Len(@) |->
                     IF Shared(j) THEN state.frames[Holder(j)] ELSE @[j] ]]

frameName(newId) == <<"frame_", newId>>

\* App.addNewFrame(rect): AppState.frames.push(...)
addNewFrame(state, rect) ==
    LET newId == IF Len(state.frames) > 0
                 THEN SetMax({state.frames[k].id : k \in 1..Len(state.frames)}) + 1
                 ELSE 0
    IN  [ state EXCEPT
            !.frames = Append(@, [ id |-> newId, name |-> frameName(newId),
                                   rect |-> rect, type |-> "simple" ]),
            !.objects = Append(@, IF state.sameArray THEN Len(state.frames) + 1
                                  ELSE 0) ]

\* App.deleteFrame(frameId): AppState.frames = AppState.frames.filter(...),
\* a new array of the same frame objects
deleteFrame(state, frameId) ==
    LET pairs == [ k \in 1..Len(state.frames) |->
                     [frame |-> state.frames[k], object |-> state.objects[k]] ]
        kept == SelectSeq(pairs, LAMBDA p : p.frame.id # frameId)
    IN  [ frames |-> [k \in 1..Len(kept) |-> kept[k].frame],
          objects |-> [k \in 1..Len(kept) |-> kept[k].object],
          entry |-> state.entry, sameArray |-> FALSE ]

\* App.trimSpritesheet: the bounding box of all frames
trimBox(frames) ==
    LET rects == {frames[k].rect : k \in 1..Len(frames)}
    IN  [ minX |-> SetMin({r.x : r \in rects}),
          minY |-> SetMin({r.y : r \in rects}),
          maxX |-> SetMax({r.x + r.w : r \in rects}),
          maxY |-> SetMax({r.y + r.h : r \in rects}) ]

\* tempCtx.drawImage(DOM.imageDisplay, minX, minY, newWidth, newHeight, 0, 0,
\* newWidth, newHeight) on a new canvas, loaded back into DOM.imageDisplay
trimImage(img, bBox) ==
    LET newWidth == bBox.maxX - bBox.minX
        newHeight == bBox.maxY - bBox.minY
    IN  LoadedImage(newWidth, newHeight,
            [ i \in 0..(newWidth * newHeight - 1) |->
                LET x == bBox.minX + PixelX(i, newWidth)
                    y == bBox.minY + PixelY(i, newWidth)
                IN  IF x < img.naturalWidth /\ y < img.naturalHeight
                    THEN img.pixels[y * img.naturalWidth + x] ELSE Clear ])

\* frame.rect.x -= bBox.minX; frame.rect.y -= bBox.minY, on every frame object
trimFrames(state, bBox) ==
    [ state EXCEPT
        !.frames = [ k \in 1..Len(@) |->
                       [ @[k] EXCEPT !.rect.x = @ - bBox.minX,
                                     !.rect.y = @ - bBox.minY ] ] ]

\* AppState.frames = newFrames of App.detectSprites: the array the promise
\* resolved with, which is the cached one unless a fallback produced it
assignFrames(outcome, entries) ==
    LET key == getCacheKey(outcome.img, outcome.cfg)
        stored == /\ outcome.path \in {"cache", "inline", "worker"}
                  /\ outcome.cfg.enableCache
                  /\ cacheHas(entries, key)
    IN  [ frames |-> outcome.frames,
          objects |-> [k \in 1..Len(outcome.frames) |-> IF stored THEN k ELSE 0],
          entry |-> IF stored
                    THEN entries[CHOOSE k \in 1..Len(entries) :
                                     entries[k].key = key].stamp
                    ELSE 0,
          sameArray |-> stored ]

EditorFixed ==
    UNCHANGED <<config, phase, inlineRun, workerRun, env, detectionWorker,
                handlers, toWorker, fromWorker, microtasks, promises, started,
                settled, calls, inserts, chunking>>

\* the values of the tolerance field: parseInt(input.value, 10)
ToleranceInputs == {Num(DefaultTolerance), NaN}

\* App.detectSprites up to its await
DetectSprites ==
    /\ ~awaiting
    /\ calls < MaxCalls
    /\ awaiting' = TRUE
    /\ \E tolerance \in ToleranceInputs :
          DetectCall(image, [tolerance |-> tolerance])
    /\ UNCHANGED AppState

\* App.detectSprites from its await on, once the promise is settled
DetectSpritesResume ==
    /\ awaiting
    /\ \A s \in 1..MaxInFlight : promises[s] = "free"
    /\ microtasks = <<>>
    /\ awaiting' = FALSE
    /\ AppState' =
          IF settled.kind = "resolved" /\ Len(settled.frames) > 0
          THEN assignFrames(settled, detectionCache)
          ELSE AppState
    /\ UNCHANGED <<image, detectionCache>>
    /\ EditorFixed

NewRects == {[x |-> 0, y |-> 0, w |-> 1, h |-> 1]}

AddNewFrame ==
    /\ ~awaiting
    /\ Len(AppState.frames) < MaxFrames
    /\ \E rect \in NewRects :
          \E next \in {addNewFrame(AppState, rect)} :
              /\ next.frames[Len(next.frames)].id <= MaxFrames
              /\ AppState' = next
              /\ detectionCache' = WriteThrough(detectionCache, next)
    /\ UNCHANGED <<image, awaiting>>
    /\ EditorFixed

DeleteFrame ==
    /\ ~awaiting
    /\ \E k \in 1..Len(AppState.frames) :
          AppState' = deleteFrame(AppState, AppState.frames[k].id)
    /\ UNCHANGED <<image, awaiting, detectionCache>>
    /\ EditorFixed

TrimSpritesheet ==
    /\ ~awaiting
    /\ Len(AppState.frames) > 0
    /\ \E bBox \in {trimBox(AppState.frames)} :
          /\ bBox.maxX - bBox.minX > 0
          /\ bBox.maxY - bBox.minY > 0
          /\ \E next \in {trimFrames(AppState, bBox)} :
                /\ AppState' = next
                /\ detectionCache' = WriteThrough(detectionCache, next)
          /\ image' = trimImage(image, bBox)
    /\ UNCHANGED awaiting
    /\ EditorFixed

\* a new image is loaded: DOM.imageDisplay.onload calls clearAll
LoadImage ==
    /\ ~awaiting
    /\ \E img \in {ImgA, ImgB} : img # image /\ image' = img
    /\ AppState' = NoFrames
    /\ UNCHANGED <<awaiting, detectionCache>>
    /\ EditorFixed

EditorInit ==
    /\ \E browser \in Browsers : ModuleLoaded(browser)
    /\ image = ImgA /\ config = AppConfig /\ phase = "editor"
    /\ inlineRun = NoRun /\ workerRun = NoRun

EditorNext ==
    \/ DetectSprites \/ DetectSpritesResume
    \/ AddNewFrame \/ DeleteFrame \/ TrimSpritesheet \/ LoadImage
    \/ RunMicrotask \/ WorkerProcess \/ OnMessage \/ OnWorkerError

SpecEditor == EditorInit /\ [][EditorNext]_vars

(***************************************************************************)
(* C18: the frame array stored in the cache under a key is never changed   *)
(* after insertion: after any sequence of editor operations that follow a  *)
(* detection (App.detectSprites assigning the result to AppState.frames,   *)
(* then App.addNewFrame, deleteFrame, trimSpritesheet), a later cache hit  *)
(* for that key returns the frame list exactly as detection produced it.   *)
(***************************************************************************)
EntriesKept ==
    \A k \in 1..Len(detectionCache), j \in 1..Len(detectionCache') :
        (/\ detectionCache'[j].key = detectionCache[k].key
         /\ detectionCache'[j].stamp = detectionCache[k].stamp)
            => detectionCache'[j].frames = detectionCache[k].frames

C18_Original == [][EntriesKept]_vars

(***************************************************************************)
(* C19: no detection run shares mutable state with another concurrent run: *)
(* when a second detectSpritesFromImage call starts on the worker path     *)
(* before the first call's worker response has arrived, each call's        *)
(* promise is resolved with the frames computed from its own image and     *)
(* config, and each cache key receives only frames computed for that key.  *)
(***************************************************************************)
\* what the worker computes from the image and config of a settlement
WorkerFramesFor(outcome) ==
    processImageData(outcome.img.pixels, outcome.img.naturalWidth,
                     outcome.img.naturalHeight, outcome.cfg).frames

ResolvedByWorker == settled.path = "worker" /\ settled.kind = "resolved"

C19_Original ==
    ResolvedByWorker =>
        \E frames \in {WorkerFramesFor(settled)} :
            /\ settled.frames = frames
            /\ settled.cfg.enableCache =>
                  \E key \in {getCacheKey(settled.img, settled.cfg)} :
                      cacheHas(detectionCache, key)
                          => cacheGet(detectionCache, key) = frames

(***************************************************************************)
(* C20: when several colour buckets of the border sample share the maximum *)
(* count, detectBackgroundColor returns the colour of the first such       *)
(* bucket in iteration (insertion) order.                                  *)
(***************************************************************************)
\* the buckets of the image's border sample, in insertion order
BorderBuckets ==
    CountColors(borderPixels(image.pixels, image.naturalWidth,
                             image.naturalHeight), 1, <<>>, GroupTolerance)

IsLargest(buckets, k) == \A j \in 1..Len(buckets) : buckets[j][2] <= buckets[k][2]

FirstLargest(buckets) ==
    CHOOSE k \in 1..Len(buckets) :
        /\ IsLargest(buckets, k)
        /\ \A j \in 1..(k - 1) : ~IsLargest(buckets, j)

C20_Original ==
    JustRanInline =>
        \E buckets \in {BorderBuckets} :
            inlineRun.bgColor = buckets[FirstLargest(buckets)][1]

(***************************************************************************)
(* C21: during a detection scan every pixel is enqueued at most once (it   *)
(* is marked visited at the moment it is enqueued) and background pixels   *)
(* are never enqueued, so the pixelCount reported for a region equals the  *)
(* number of distinct pixels in that region.                               *)
(***************************************************************************)
\* the foreground of the buffer the scan of a run worked on
ScanForeground(run) == Foreground(run.data, run.bgColor, FinalConfig.tolerance)

\* the places of the scan's queue log: region r, k-th pixel it enqueued
Enqueued(run) ==
    {e \in (1..Len(run.regions)) \X (1..(image.naturalWidth * image.naturalHeight)) :
        e[2] <= Len(run.regions[e[1]].pushed)}

EnqueuedOnce(run) ==
    \A e, f \in Enqueued(run) :
        e # f => run.regions[e[1]].pushed[e[2]] # run.regions[f[1]].pushed[f[2]]

NoBackgroundEnqueued(run) ==
    \A e \in Enqueued(run) : run.regions[e[1]].pushed[e[2]] \in ScanForeground(run)

CountsDistinctPixels(run) ==
    \A r \in 1..Len(run.regions) :
        LET region == run.regions[r]
            pixels == {region.pushed[k] : k \in 1..Len(region.pushed)}
        IN  /\ region.pixelCount = Cardinality(pixels)
            /\ pixels = ComponentOf(region.seed, ScanForeground(run),
                                    image.naturalWidth, Eight)

ScanIsExact(run) ==
    EnqueuedOnce(run) /\ NoBackgroundEnqueued(run) /\ CountsDistinctPixels(run)

C21_EnqueuedOnce ==
    /\ JustRanInline => ScanIsExact(inlineRun)
    /\ JustRanWorker => ScanIsExact(workerRun)

\* a fill over a region in which a pixel has two neighbours that are
\* enqueued before it is taken from the queue (a 2 x 2 block), next to
\* background
C21_Witness ==
    /\ JustRanInline
    /\ \E r \in 1..Len(inlineRun.regions) :
          LET pushed == inlineRun.regions[r].pushed
              w == image.naturalWidth
          IN  /\ Len(pushed) >= 4
              /\ \E p \in {pushed[k] : k \in 1..Len(pushed)} :
                    /\ PixelX(p, w) + 1 < w
                    /\ {p, p + 1, p + w, p + w + 1}
                          \subseteq {pushed[k] : k \in 1..Len(pushed)}
    /\ ScanForeground(inlineRun) # DOMAIN image.pixels

(***************************************************************************)
(* C22: a region whose pixel count is below minSpriteSize is discarded for *)
(* good: its pixels stay visited, no later seed in the same run starts a   *)
(* fill inside it, and none of its pixels is counted in or extends the     *)
(* rect of any emitted frame.                                              *)
(***************************************************************************)
RegionPixels(region) == {region.pushed[k] : k \in 1..Len(region.pushed)}

EmittedRegions(run) == SelectSeq(run.regions, LAMBDA region : region.emitted)

DroppedForGood(run) ==
    LET w == image.naturalWidth
        emitted == EmittedRegions(run)
    IN  /\ Len(emitted) = Len(run.outcome.frames)
        /\ \A r \in 1..Len(run.regions) :
              ~run.regions[r].emitted =>
                  /\ run.regions[r].pixelCount < MinSize
                  \* no later fill starts in it or takes a pixel of it
                  /\ \A later \in (r + 1)..Len(run.regions) :
                        /\ run.regions[later].seed \notin RegionPixels(run.regions[r])
                        /\ RegionPixels(run.regions[later])
                              \cap RegionPixels(run.regions[r]) = {}
                  \* no frame counts its pixels or is stretched over them
                  /\ \A k \in 1..Len(emitted) :
                        /\ RegionPixels(emitted[k])
                              \cap RegionPixels(run.regions[r]) = {}
                        /\ emitted[k].pixelCount = Cardinality(RegionPixels(emitted[k]))
                        /\ run.outcome.frames[k].rect
                              = BoundingBox(RegionPixels(emitted[k]), w)

C22_DroppedForGood ==
    /\ JustRanInline => DroppedForGood(inlineRun)
    /\ JustRanWorker => DroppedForGood(workerRun)

\* a dropped region of two pixels or more (a later scan position lies in
\* it) that touches an emitted region diagonally and lies outside its rect
C22_Witness ==
    /\ JustRanInline /\ ~Eight
    /\ \E r, e \in 1..Len(inlineRun.regions) :
          /\ ~inlineRun.regions[r].emitted
          /\ inlineRun.regions[r].pixelCount >= 2
          /\ inlineRun.regions[e].emitted
          /\ \E p \in RegionPixels(inlineRun.regions[r]),
                q \in RegionPixels(inlineRun.regions[e]) :
                /\ Adjacent8(p, q, image.naturalWidth)
                /\ LET box == BoundingBox(RegionPixels(inlineRun.regions[e]),
                                          image.naturalWidth)
                   IN  \/ PixelX(p, image.naturalWidth) < box.x
                       \/ PixelX(p, image.naturalWidth) >= box.x + box.w
                       \/ PixelY(p, image.naturalWidth) < box.y
                       \/ PixelY(p, image.naturalWidth) >= box.y + box.h

(***************************************************************************)
(* C23: the noise filter measures and repaints regions with 4-connectivity *)
(* whatever the configured detector connectivity: a pixel is repainted iff *)
(* its 4-connected foreground region has at most noiseThreshold pixels, so *)
(* with 8-connectivity configured a chain of pixels that touch only        *)
(* diagonally is erased pixel by pixel even when its 8-connected size is   *)
(* >= minSpriteSize.                                                       *)
(***************************************************************************)
\* the pixels applyNoiseReduction wrote the background colour to: the
\* filter's visited set (only markNoisePixels marks it)
Repainted(run) ==
    noiseScan(0, [data |-> image.pixels, visited |-> {}],
              image.naturalWidth, image.naturalHeight, run.bgColor,
              FinalConfig.tolerance, noiseThresholdOf(FinalConfig)).visited

\* the pixels of the image's 4-connected foreground regions of at most
\* limit pixels
InSmallRegions(run, limit) ==
    UNION { C \in Components(RunForeground(run), image.naturalWidth, FALSE) :
              Cardinality(C) <= limit }

RepaintedAreSmall(run, limit) ==
    \E repainted \in {Repainted(run)} :
        /\ repainted = InSmallRegions(run, limit)
        /\ \A p \in DOMAIN image.pixels :
              run.data[p] = IF p \in repainted THEN run.bgColor
                            ELSE image.pixels[p]

C23_Original ==
    (JustRanInline /\ NoiseEnabled) =>
        RepaintedAreSmall(inlineRun, FinalConfig.noiseThreshold)

(***************************************************************************)
(* C30: the noise filter leaves every pixel of every 4-connected           *)
(* foreground region with more than noiseThreshold pixels unchanged, for   *)
(* every configured noiseThreshold >= 0; in particular with                *)
(* noiseThreshold = 0 it repaints nothing.                                 *)
(***************************************************************************)
LargeRegionsKept(run, limit) ==
    \A C \in Components(RunForeground(run), image.naturalWidth, FALSE) :
        Cardinality(C) > limit =>
            \A p \in C : run.data[p] = image.pixels[p]

C30_Original ==
    (JustRanInline /\ NoiseEnabled) =>
        /\ LargeRegionsKept(inlineRun, FinalConfig.noiseThreshold)
        /\ FinalConfig.noiseThreshold = 0 => inlineRun.data = image.pixels

(***************************************************************************)
(* C24: when bucketing sampled border colours, detectBackgroundColor puts  *)
(* a colour into an existing bucket exactly when its distance to the       *)
(* bucket's colour under the rule of the background predicate (sum of      *)
(* absolute R, G, B differences, alpha excluded) is <= the fixed grouping  *)
(* tolerance 5.                                                            *)
(***************************************************************************)
\* the buckets the sentence describes: a sample joins the first bucket
\* whose colour is within the grouping tolerance by the R, G, B sum, and
\* opens a bucket when there is none
RECURSIVE BucketsByDistance(_, _, _)
BucketsByDistance(samples, k, buckets) ==
    IF k > Len(samples) THEN buckets
    ELSE LET near == {b \in 1..Len(buckets) :
                         RgbDistance(samples[k], buckets[b][1]) <= GroupTolerance}
         IN  BucketsByDistance(samples, k + 1,
                 IF near = {} THEN Append(buckets, <<samples[k], 1>>)
                 ELSE [buckets EXCEPT ![SetMin(near)] = <<@[1], @[2] + 1>>])

C24_Original ==
    JustRanInline =>
        BorderBuckets
            = BucketsByDistance(borderPixels(image.pixels, image.naturalWidth,
                                             image.naturalHeight), 1, <<>>)

(***************************************************************************)
(* The chunked processor's specification: one call of                      *)
(* processImageInChunks(imageData, config), its for loop one iteration at  *)
(* a time and its awaits one at a time.                                    *)
(***************************************************************************)
ChunkImages == ImagesOver(TwoColours, Dims(MaxNoisePixels, MaxSide))

\* chunkSize absent, 0 and up to MaxChunkBytes bytes: less than a pixel,
\* less than a row, rows, the whole image
ChunkConfigs ==
    { [ tolerance |-> Num(DefaultTolerance), minSpriteSize |-> Num(1),
        chunkSize |-> c ] @@ NoiseOff
      : c \in {Undefined} \cup {Num(n) : n \in 0..MaxChunkBytes} }

ChunkFixed == UNCHANGED <<detectorVars, moduleVars, editorVars>>

ChunkInit ==
    /\ image \in ChunkImages
    /\ config \in ChunkConfigs
    /\ phase = "chunks"
    /\ inlineRun = NoRun
    /\ workerRun = NoRun
    /\ ModuleLoaded(Browser(TRUE, TRUE, TRUE))

\* the executor up to the for loop: with rowsPerChunk >= h the whole image
\* goes to processImageChunk and its promise is chained to resolve
ChunkCall ==
    /\ chunking.pc = "idle"
    /\ LET w == image.naturalWidth
           h == image.naturalHeight
           rows == rowsPerChunk(config, w)
       IN  chunking' =
              IF rows >= h
              THEN [chunking EXCEPT
                      !.pc = "whole", !.rowsPerChunk = rows,
                      !.processed = <<Chunk(0, h)>>,
                      !.allFrames =
                          processImageChunk(image.pixels, 0, h, w, config).frames]
              ELSE [chunking EXCEPT
                      !.pc = "split", !.rowsPerChunk = rows, !.startRow = 0]
    /\ ChunkFixed

\* .then(resolve) of the whole image's chunk
ChunkWhole ==
    /\ chunking.pc = "whole"
    /\ chunking' = [chunking EXCEPT !.pc = "done",
                                    !.outcome = Resolved(chunking.allFrames)]
    /\ ChunkFixed

\* one iteration of for (startRow = 0; startRow < h; startRow +=
\* rowsPerChunk): the push, the increment and the test that follows it.
\* chunks is kept up to MaxChunks entries: it grows past h entries only
\* when the increment is 0, and then every entry is the same
ChunkSplit ==
    /\ chunking.pc = "split"
    /\ LET h == image.naturalHeight
           endRow == Min(chunking.startRow + chunking.rowsPerChunk, h)
           startRow == chunking.startRow + chunking.rowsPerChunk
       IN  chunking' =
              [chunking EXCEPT
                 !.chunks = IF Len(@) < MaxChunks
                            THEN Append(@, Chunk(chunking.startRow, endRow))
                            ELSE @,
                 !.startRow = startRow,
                 !.pc = IF startRow < h THEN "split" ELSE "process",
                 !.at = IF startRow < h THEN @ ELSE 1]
    /\ ChunkFixed

\* one iteration of for (const chunk of chunks) in
\* processChunksSequentially: await processImageChunk, push its frames
ChunkProcess ==
    /\ chunking.pc = "process"
    /\ chunking.at <= Len(chunking.chunks)
    /\ LET chunk == chunking.chunks[chunking.at]
           chunkFrames ==
               processImageChunk(image.pixels, chunk.startRow, chunk.endRow,
                                 image.naturalWidth, config).frames
       IN  chunking' = [chunking EXCEPT
                          !.at = @ + 1,
                          !.processed = Append(@, chunk),
                          !.allFrames = @ \o chunkFrames]
    /\ ChunkFixed

\* resolve(allFrames) after the last chunk
ChunkResolve ==
    /\ chunking.pc = "process"
    /\ chunking.at > Len(chunking.chunks)
    /\ chunking' = [chunking EXCEPT !.pc = "done",
                                    !.outcome = Resolved(chunking.allFrames)]
    /\ ChunkFixed

ChunkNext ==
    ChunkCall \/ ChunkWhole \/ ChunkSplit \/ ChunkProcess \/ ChunkResolve

SpecChunks == ChunkInit /\ [][ChunkNext]_vars

\* the engine runs the executor's loop to its end and every queued
\* continuation
SpecChunksFair ==
    /\ SpecChunks
    /\ WF_vars(ChunkWhole) /\ WF_vars(ChunkSplit)
    /\ WF_vars(ChunkProcess) /\ WF_vars(ChunkResolve)

ChunkCalled == chunking.pc # "idle"
ChunkSettled == chunking.outcome.kind # "pending"

(***************************************************************************)
(* C25: processImageInChunks splits an image of height h into row bands    *)
(* that are consecutive, non-overlapping, each of at most                  *)
(* floor(floor(chunkSize/4)/width) rows, together covering every row       *)
(* 0..h-1 exactly once, and it processes them one after another in         *)
(* ascending row order.                                                    *)
(***************************************************************************)
\* bands, in their order, are non-empty, start at row 0, each starts where
\* the one before ends, and none has more than limit rows
ConsecutiveBands(bands, limit) ==
    \A k \in 1..Len(bands) :
        /\ bands[k].startRow < bands[k].endRow
        /\ bands[k].endRow - bands[k].startRow <= limit
        /\ bands[k].startRow = IF k = 1 THEN 0 ELSE bands[k - 1].endRow

\* the bands handed to processImageChunk so far are the rows 0..h-1, band
\* after band
AllRowsProcessed ==
    /\ chunking.processed # <<>>
    /\ ConsecutiveBands(chunking.processed,
                        pixelsPerChunk(config) \div image.naturalWidth)
    /\ chunking.processed[Len(chunking.processed)].endRow = image.naturalHeight

C25_Original == ChunkCalled ~> AllRowsProcessed

(***************************************************************************)
(* C26: processImageInChunks returns the concatenation, in band order, of  *)
(* the frames detected in each row band: a sprite lying wholly inside one  *)
(* band is emitted as one frame and a sprite crossing a band boundary is   *)
(* emitted as two frames, one per band.                                    *)
(***************************************************************************)
\* the rects of the sprites detected in the rows of one band, at their
\* place in the image, the background being the image's
BandRects(band) ==
    LET w == image.naturalWidth
        bgColor == workerDetectBackgroundColor(image.pixels, w,
                                               image.naturalHeight)
        frames == scanImage(chunkDataOf(image.pixels, band.startRow,
                                        band.endRow, w),
                            w, band.endRow - band.startRow, bgColor,
                            mergeConfig(config)).frames
    IN  [k \in 1..Len(frames) |->
            [frames[k].rect EXCEPT !.y = @ + band.startRow]]

RECURSIVE RectsOfBands(_, _)
RectsOfBands(bands, k) ==
    IF k > Len(bands) THEN <<>>
    ELSE BandRects(bands[k]) \o RectsOfBands(bands, k + 1)

C26_Original ==
    chunking.outcome.kind = "resolved" =>
        [k \in 1..Len(chunking.outcome.frames) |-> chunking.outcome.frames[k].rect]
            = RectsOfBands(chunking.processed, 1)

(***************************************************************************)
(* C29: processImageInChunks terminates (its promise settles after         *)
(* finitely many steps) for every image with width >= 1 and height >= 1    *)
(* and every positive chunkSize, including chunk sizes smaller than one    *)
(* image row (floor(chunkSize/4) < width).                                 *)
(***************************************************************************)
C29_Original == ChunkCalled ~> ChunkSettled

(***************************************************************************)
(* C27: caching is transparent: after any sequence of earlier calls, a     *)
(* detectSpritesFromImage call answered from the cache returns exactly     *)
(* the frame list that a fresh run on the image and full config supplied   *)
(* in that call would return (including when an earlier call used a        *)
(* different image of the same dimensions or different noise-reduction     *)
(* settings).                                                              *)
(***************************************************************************)
\* what a run on the call's own image and merged config returns, on the
\* main thread and in the worker
FreshFrames(outcome) ==
    { floodFillAlgorithm(outcome.img, AsFloodFill(outcome.cfg)).frames,
      WorkerFramesFor(outcome) }

AnsweredFromCache == settled.path = "cache" /\ settled.kind = "resolved"

C27_Original == AnsweredFromCache => settled.frames \in FreshFrames(settled)

(***************************************************************************)
(* The module under a fair schedule: the event loop runs every queued      *)
(* microtask and delivers every worker event to the handler assigned at    *)
(* that time, and the worker answers every message it receives.  The       *)
(* worker's turns are told by its queue and its state: a step that takes   *)
(* the head off toWorker is a step of WorkerProcess, a step that leaves    *)
(* "failing" is a step of OnWorkerError.                                   *)
(***************************************************************************)
WorkerTurn ==
    /\ toWorker # <<>>
    /\ detectionWorker = "running"
    /\ toWorker' = Tail(toWorker)

ErrorEvent ==
    /\ detectionWorker = "failing"
    /\ microtasks = <<>>
    /\ detectionWorker' = "dead"

SpecLive ==
    /\ Spec
    /\ WF_vars(RunMicrotask) /\ WF_vars(OnMessage)
    /\ WF_toWorker(WorkerTurn) /\ WF_detectionWorker(ErrorEvent)

(***************************************************************************)
(* C28: every call to detectSpritesFromImage eventually resolves or        *)
(* rejects, assuming the worker answers every message it receives; this    *)
(* holds also when several calls are in flight at once on the worker path, *)
(* so App.detectSprites always reaches its finally block that hides the    *)
(* loader and re-enables the auto-detect buttons.                          *)
(***************************************************************************)
\* the worker, where one is made, loads its script and so answers
WorkerAnswers == (env.hasWorker /\ env.constructs) => env.loads

C28_Original ==
    \A s \in 1..MaxInFlight :
        (WorkerAnswers /\ promises[s] = "pending") ~> (promises[s] = "free")

====
